---- MODULE Spec2Model ----
(***************************************************************************)
(* Model of the group-chat keyword analysis plugin.                        *)
(*                                                                         *)
(*   TopicAnalyzer._identify_discussion_sessions  (topic_analyzer.py)      *)
(*       the session segmenter: SpecSegment                                *)
(*   MessageHandler._is_semantically_related  (message_handler.py)         *)
(*   DebugMessageFilter._is_semantically_related (debug_message_filter.py) *)
(*       the relevance matcher: SpecMatcher                                *)
(*   MessageHandler._expand_keyword_variants  (message_handler.py)         *)
(*   DebugMessageFilter._expand_keyword_variants (debug_message_filter.py) *)
(*       the keyword expansion: SpecExpand                                 *)
(*   TopicAnalyzer._analyze_conversation_flow  (topic_analyzer.py)         *)
(*       conversation type and key points of a session: SpecClassify       *)
(*   TopicAnalyzer.analyze_topic_messages  (topic_analyzer.py)             *)
(*       one analysis: SpecAnalyze; two interleaved: SpecConcurrent        *)
(*   MessageHandler._levenshtein_distance  (message_handler.py)            *)
(*       the edit distance: SpecLevenshtein                                *)
(*   TopicAnalyzer._analyze_discussion_sessions  (topic_analyzer.py)       *)
(*       the segmenter without callers: SpecSegmentCalls                   *)
(*   MessageHandler.fetch_group_messages  (message_handler.py)             *)
(*       the paging loop over the history API: SpecFetch                   *)
(*   TopicAnalyzer._analyze_session_status  (topic_analyzer.py)            *)
(*       completion and result of a session: SpecStatus                    *)
(*                                                                         *)
(* A chat message is a record [id, time]: `time` is msg["time"], `id` is   *)
(* the position of the message in the caller's list and stands for the     *)
(* rest of the dict (sender, content), which the segmenter copies into the *)
(* session entry without looking at it.                                    *)
(***************************************************************************)
EXTENDS Integers, Sequences, FiniteSets, TLC

(***************************************************************************)
(* Bounds of the model.                                                    *)
(***************************************************************************)
MaxMsgs == 4
MaxTime == 3
MaxGap == 2
MaxTextLen == 3
MaxVariants == 2
MaxKeywordLen == 2
MaxContents == 4

(* config.get("interrupt_threshold", 1800) *)
interrupt_threshold_default == 1800

VARIABLES
    messages,          \* the caller's message list (argument `messages`)
    threshold,         \* self.interrupt_threshold
    pc,                \* position inside _identify_discussion_sessions
    sorted_messages,   \* local `sorted_messages`
    idx,               \* 1-based position of the for loop in sorted_messages
    current_session,   \* local `current_session`
    sessions,          \* local `sessions`, the value returned at pc = "done"
    \* ---- one caller of the relevance matcher
    mh_impl,           \* "handler": MessageHandler, "debug": DebugMessageFilter
    mh_message,        \* argument `message`
    mh_variants,       \* argument `keyword_variants`
    mh_pc,             \* "call": the matcher is about to run, "done": it returned
    mh_result,         \* what the last call returned
    mh_prev,           \* the call before the last: [called, value]
    \* ---- one call of _expand_keyword_variants
    ex_impl,           \* "handler": MessageHandler, "debug": DebugMessageFilter
    ex_raw,            \* argument `keyword` as the caller passed it
    ex_keyword,        \* local `keyword`
    ex_variants,       \* local `variants`
    ex_gen,            \* the generator whose list is appended next, 1..5
    ex_pc,             \* position inside _expand_keyword_variants
    ex_result,         \* the list returned at ex_pc = "done"
    \* ---- one call of _analyze_conversation_flow
    cl_contents,       \* local `contents`: the texts of the session's messages
    cl_pc,             \* position inside _analyze_conversation_flow
    cl_type,           \* local `conversation_type`
    cl_key_points,     \* local `key_points`, returned at cl_pc = "done"
    \* ---- one call of analyze_topic_messages
    an_messages,       \* argument `messages`
    an_keyword,        \* argument `keyword`
    an_group_id,       \* argument `group_id`
    an_enable_llm,     \* self.enable_llm
    an_pc,             \* position inside analyze_topic_messages
    an_result,         \* local `analysis_result`, returned at an_pc = "done"
    an_raised,         \* the exception that left the call, "none" if none
    \* ---- two calls of analyze_topic_messages on one event loop
    cc_analyzer,       \* the TopicAnalyzer the invocations are called on
    cc_lists,          \* the list objects passed as `messages`
    cc_calls,          \* per invocation: its arguments, position and locals
    \* ---- one call of _levenshtein_distance
    lv_a,              \* first argument of the caller
    lv_b,              \* second argument of the caller
    lv_s1,             \* `s1` of the frame that runs
    lv_s2,             \* `s2` of the frame that runs
    lv_pc,             \* position inside _levenshtein_distance
    lv_i,              \* rows computed so far
    lv_row,            \* local `previous_row`
    lv_result,         \* the distance returned at lv_pc = "done"
    \* ---- one call of fetch_group_messages
    ft_group_id,       \* argument `group_id`
    ft_days,           \* argument `days`
    ft_keyword,        \* argument `keyword`, <<>> when none is given
    ft_pc,             \* position inside fetch_group_messages
    ft_start_time,     \* local `start_time`
    ft_end_time,       \* local `end_time`
    ft_variants,       \* local `keyword_variants`
    ft_messages,       \* local `messages`, as runs of equal messages
    ft_message_seq,    \* local `message_seq`
    ft_query_rounds,   \* local `query_rounds`
    ft_failures,       \* local `consecutive_failures`
    ft_round,          \* local `round_messages`, as runs of equal messages
    ft_i,              \* 1-based position of `for msg in round_messages`
    ft_valid,          \* local `valid_messages_in_round`
    ft_oldest,         \* local `oldest_msg_time`, NoTime for None
    ft_calls,          \* how often bot.api.call_action has been called
    ft_outcome,        \* what the last call of the API gave
    ft_returned,       \* the list returned at ft_pc = "done"
    \* ---- one call of _analyze_session_status
    st_session,        \* argument `session`: the "content" of its entries
    st_pc,             \* position inside _analyze_session_status
    st_full_text,      \* local `full_text`
    st_is_completed,   \* local `is_completed`
    st_sentences,      \* local `sentences`
    st_k,              \* 1-based position of `for sentence in sentences`
    st_result_summary, \* local `result_summary`
    st_assigned_at     \* the line that gave result_summary its value

segVars == <<messages, threshold, pc, sorted_messages, idx, current_session, sessions>>
matchVars == <<mh_impl, mh_message, mh_variants, mh_pc, mh_result, mh_prev>>
expandVars == <<ex_impl, ex_raw, ex_keyword, ex_variants, ex_gen, ex_pc, ex_result>>
classVars == <<cl_contents, cl_pc, cl_type, cl_key_points>>
anaVars == <<an_messages, an_keyword, an_group_id, an_enable_llm, an_pc, an_result, an_raised>>
concVars == <<cc_analyzer, cc_lists, cc_calls>>
levVars == <<lv_a, lv_b, lv_s1, lv_s2, lv_pc, lv_i, lv_row, lv_result>>
fetchVars == <<ft_group_id, ft_days, ft_keyword, ft_pc, ft_start_time, ft_end_time, ft_variants,
               ft_messages, ft_message_seq, ft_query_rounds, ft_failures, ft_round, ft_i,
               ft_valid, ft_oldest, ft_calls, ft_outcome, ft_returned>>
statusVars == <<st_session, st_pc, st_full_text, st_is_completed, st_sentences, st_k,
                st_result_summary, st_assigned_at>>
tailVars == <<fetchVars, statusVars>>
moreVars == <<levVars, tailVars>>
laterVars == <<classVars, anaVars, concVars, moreVars>>
vars == <<segVars, matchVars, expandVars, laterVars>>

(***************************************************************************)
(* Generic helpers.                                                        *)
(***************************************************************************)
Min2(a, b) == IF a <= b THEN a ELSE b
Max2(a, b) == IF a >= b THEN a ELSE b

SeqsUpTo(S, n) == UNION {[1..k -> S] : k \in 0..n}

(***************************************************************************)
(* Strings.  A Python str is a sequence of code points: "ab" is <<97, 98>>.*)
(***************************************************************************)
(* characters str.strip() removes *)
WhiteSpace == {9, 10, 11, 12, 13, 28, 29, 30, 31, 32, 133, 160, 5760, 8232, 8233,
               8239, 8287, 12288} \cup (8192..8202)

IsUpperAscii(c) == c \in 65..90
IsLowerAscii(c) == c \in 97..122
IsDigit(c) == c \in 48..57

(* [一-鿿] *)
IsCJK(c) == c \in 19968..40959

(* [a-zA-Z0-9] *)
IsAlnum(c) == IsUpperAscii(c) \/ IsLowerAscii(c) \/ IsDigit(c)

(* str.lower(), on the characters of the model: A-Z map to a-z, the digits,
   the punctuation, the white space and the CJK ideographs are unchanged *)
LowerChar(c) == IF IsUpperAscii(c) THEN c + 32 ELSE c

Lower(s) == [i \in 1..Len(s) |-> LowerChar(s[i])]

RECURSIVE LStrip(_)
LStrip(s) == IF s # <<>> /\ Head(s) \in WhiteSpace THEN LStrip(Tail(s)) ELSE s

RECURSIVE RStrip(_)
RStrip(s) ==
    IF s # <<>> /\ s[Len(s)] \in WhiteSpace THEN RStrip(SubSeq(s, 1, Len(s) - 1)) ELSE s

(* str.strip() *)
Strip(s) == RStrip(LStrip(s))

(* sub in s *)
Contains(s, sub) ==
    \E i \in 0..(Len(s) - Len(sub)) : SubSeq(s, i + 1, i + Len(sub)) = sub

(* set(s) *)
CharSet(s) == {s[i] : i \in 1..Len(s)}

(* s.endswith(suffix) *)
EndsWith(s, suffix) ==
    /\ Len(suffix) <= Len(s)
    /\ SubSeq(s, Len(s) - Len(suffix) + 1, Len(s)) = suffix

(* sep.join(parts) *)
RECURSIVE Join(_, _)
Join(parts, sep) ==
    IF parts = <<>> THEN <<>>
    ELSE IF Len(parts) = 1 THEN parts[1]
    ELSE parts[1] \o sep \o Join(Tail(parts), sep)

(* concatenation of a sequence of sequences: list.extend over several lists *)
RECURSIVE Flatten(_)
Flatten(ss) == IF ss = <<>> THEN <<>> ELSE Head(ss) \o Flatten(Tail(ss))

(* x in list *)
InList(list, x) == \E i \in 1..Len(list) : list[i] = x

(***************************************************************************)
(* difflib.SequenceMatcher(None, a, b).ratio().  No junk; the autojunk     *)
(* heuristic needs len(b) >= 200.  find_longest_match returns the longest  *)
(* common block of a[alo..ahi], b[blo..bhi], the one starting earliest in  *)
(* a and, among those, earliest in b; get_matching_blocks recurses on the  *)
(* pieces left and right of it; ratio = 2.0 * matches / (len(a) + len(b)). *)
(***************************************************************************)
RECURSIVE CommonRun(_, _, _, _, _, _)
CommonRun(a, b, i, j, ahi, bhi) ==
    IF i > ahi \/ j > bhi THEN 0
    ELSE IF a[i] # b[j] THEN 0
    ELSE 1 + CommonRun(a, b, i + 1, j + 1, ahi, bhi)

SetMax(S) == CHOOSE x \in S : \A y \in S : y <= x
SetMin(S) == CHOOSE x \in S : \A y \in S : x <= y

(* find_longest_match(alo, ahi, blo, bhi), 1-based inclusive ranges *)
FindLongestMatch(a, b, alo, ahi, blo, bhi) ==
    LET size == SetMax({CommonRun(a, b, i, j, ahi, bhi) :
                           i \in alo..ahi, j \in blo..bhi} \cup {0})
    IN  IF size = 0 THEN [i |-> alo, j |-> blo, size |-> 0]
        ELSE LET bi == SetMin({i \in alo..ahi : \E j \in blo..bhi :
                                   CommonRun(a, b, i, j, ahi, bhi) = size})
                 bj == SetMin({j \in blo..bhi :
                                   CommonRun(a, b, bi, j, ahi, bhi) = size})
             IN  [i |-> bi, j |-> bj, size |-> size]

(* sum of the sizes of get_matching_blocks() *)
RECURSIVE MatchingChars(_, _, _, _, _, _)
MatchingChars(a, b, alo, ahi, blo, bhi) ==
    IF alo > ahi \/ blo > bhi THEN 0
    ELSE LET m == FindLongestMatch(a, b, alo, ahi, blo, bhi)
         IN  IF m.size = 0 THEN 0
             ELSE m.size
                  + MatchingChars(a, b, alo, m.i - 1, blo, m.j - 1)
                  + MatchingChars(a, b, m.i + m.size, ahi, m.j + m.size, bhi)

(* ratio() as the fraction num/den; the ratio of two empty strings is 1.0 *)
Ratio(a, b) ==
    IF Len(a) + Len(b) = 0 THEN [num |-> 1, den |-> 1]
    ELSE [num |-> 2 * MatchingChars(a, b, 1, Len(a), 1, Len(b)),
          den |-> Len(a) + Len(b)]

(***************************************************************************)
(* MessageHandler._levenshtein_distance: two-row dynamic programming.      *)
(***************************************************************************)
(* current_row after the inner loop over s2, for character c1 at index i *)
RECURSIVE LevRow(_, _, _, _)
LevRow(previous_row, current_row, c1, s2) ==
    LET j == Len(current_row)
    IN  IF j > Len(s2) THEN current_row
        ELSE LET insertions    == previous_row[j + 1] + 1
                 deletions     == current_row[j] + 1
                 substitutions == previous_row[j] + (IF c1 # s2[j] THEN 1 ELSE 0)
             IN  LevRow(previous_row,
                        Append(current_row,
                               Min2(Min2(insertions, deletions), substitutions)),
                        c1, s2)

RECURSIVE LevRows(_, _, _, _)
LevRows(previous_row, s1, i, s2) ==
    IF i > Len(s1) THEN previous_row
    ELSE LevRows(LevRow(previous_row, <<i>>, s1[i], s2), s1, i + 1, s2)

RECURSIVE LevenshteinDistance(_, _)
LevenshteinDistance(s1, s2) ==
    IF Len(s1) < Len(s2) THEN LevenshteinDistance(s2, s1)
    ELSE IF Len(s2) = 0 THEN Len(s1)
    ELSE LET last == LevRows([k \in 1..(Len(s2) + 1) |-> k - 1], s1, 1, s2)
         IN  last[Len(last)]


(***************************************************************************)
(* MessageHandler._is_semantically_related and its strategies              *)
(* (message_handler.py).                                                   *)
(***************************************************************************)
(* A similarity is the exact fraction num/den.  The floats of the code are *)
(* quotients of integers below 20 compared with 0.6 and 0.5, and           *)
(* 0.8 * 3/4 = 0.6000000000000001 >= 0.6, 0.8 * 5/8 = 0.5 is not > 0.5:    *)
(* the comparisons of the code are those of the fractions.                 *)
FracLess(x, y) == x.num * y.den < y.num * x.den
FracAtLeast(x, num, den) == x.num * den >= num * x.den
FracAbove(x, num, den) == x.num * den > num * x.den
FracMax(x, y) == IF FracLess(x, y) THEN y ELSE x

RECURSIVE FracMaxOver(_, _)
FracMaxOver(fs, acc) ==
    IF fs = <<>> THEN acc ELSE FracMaxOver(Tail(fs), FracMax(acc, Head(fs)))

(* _calculate_text_similarity(text, keyword) *)
CalculateTextSimilarity(text, keyword) ==
    IF Len(keyword) = 0 THEN [num |-> 0, den |-> 1]
    ELSE LET windows == [i \in 1..Max2(Len(text) - Len(keyword) + 1, 0) |->
                            Ratio(SubSeq(text, i, i + Len(keyword) - 1), keyword)]
             max_similarity == FracMaxOver(windows, [num |-> 0, den |-> 1])
             char_overlap == Cardinality(CharSet(text) \cap CharSet(keyword))
             (* char_similarity * 0.8 *)
             char_part == [num |-> 4 * char_overlap,
                           den |-> 5 * Cardinality(CharSet(keyword))]
         IN  FracMax(max_similarity, char_part)

(* re.findall(r'[一-鿿]+|[a-zA-Z0-9]+', text), each token lowercased *)
InClass(cls, c) ==
    CASE cls = "cjk"   -> IsCJK(c)
      [] cls = "alnum" -> IsAlnum(c)
      [] cls = "lower" -> IsLowerAscii(c)

(* the length of the run of characters of class cls that starts at s[i] *)
RECURSIVE RunLength(_, _, _)
RunLength(s, i, cls) ==
    IF i > Len(s) THEN 0
    ELSE IF InClass(cls, s[i]) THEN 1 + RunLength(s, i + 1, cls) ELSE 0

RECURSIVE TokenizeFrom(_, _)
TokenizeFrom(s, i) ==
    IF i > Len(s) THEN <<>>
    ELSE LET n == IF IsCJK(s[i]) THEN RunLength(s, i, "cjk")
                  ELSE RunLength(s, i, "alnum")
         IN  IF n = 0 THEN TokenizeFrom(s, i + 1)
             ELSE <<Lower(SubSeq(s, i, i + n - 1))>> \o TokenizeFrom(s, i + n)

simple_tokenize(text) == TokenizeFrom(text, 1)

(* the test of one (keyword_token, text_token) pair *)
TokenPairMatches(keyword_token, text_token) ==
    \/ LevenshteinDistance(keyword_token, text_token) <= 1
    \/ /\ Contains(text_token, keyword_token) \/ Contains(keyword_token, text_token)
       /\ Len(keyword_token) >= 2
       /\ Len(text_token) >= 2

(* _fuzzy_word_match(text, keyword_variants) *)
FuzzyWordMatch(text, keyword_variants) ==
    LET text_tokens == simple_tokenize(text)
    IN  \E v \in 1..Len(keyword_variants) :
            LET keyword_tokens == simple_tokenize(keyword_variants[v])
            IN  \E k \in 1..Len(keyword_tokens) : \E t \in 1..Len(text_tokens) :
                    TokenPairMatches(keyword_tokens[k], text_tokens[t])

(* the table of _internet_pattern_match *)
match_internet_patterns == <<
    [person   |-> <<23385, 31505, 24029>>,   \* 孙笑川
     patterns |-> <<
            <<25277, 35937>>, <<24102, 24072>>, <<110, 109>>, <<26032, 27941>>,   \* 抽象 带师 nm 新津
            <<24694, 20439>>, <<29399, 31881, 19997>>, <<54, 51, 50, 52>>, <<21992, 31881>>,   \* 恶俗 狗粉丝 6324 嗨粉
            <<24102, 26126, 26143>>   \* 带明星
        >>,
     keywords |-> <<
            <<23385, 31505, 24029>>, <<31505, 24029>>, <<23385, 31505>>, <<31505, 24029>>   \* 孙笑川 笑川 孙笑 笑川
        >>],
    [person   |-> <<34081, 24464, 22372>>,   \* 蔡徐坤
     patterns |-> <<
            <<40481, 21733>>, <<40481, 20320, 22826, 32654>>, <<31726, 29699>>, <<32451, 20064, 29983>>,   \* 鸡哥 鸡你太美 篮球 练习生
            <<20004, 24180, 21322>>, <<23567, 40657, 23376>>, <<21809, 36339, 114, 97, 112>>   \* 两年半 小黑子 唱跳rap
        >>,
     keywords |-> <<
            <<34081, 24464, 22372>>, <<24464, 22372>>, <<34081, 24464>>, <<22372, 22372>>   \* 蔡徐坤 徐坤 蔡徐 坤坤
        >>],
    [person   |-> <<19969, 30495>>,   \* 丁真
     patterns |-> <<
            <<29645, 29664>>, <<29702, 22616>>, <<30005, 23376, 28895>>, <<38160, 21051>>,   \* 珍珠 理塘 电子烟 锐刻
            <<32431, 30495>>, <<19968, 30524, 30495>>, <<19969, 30495, 29645, 29664>>   \* 纯真 一眼真 丁真珍珠
        >>,
     keywords |-> <<
            <<19969, 30495>>, <<29645, 29664>>, <<29702, 22616>>   \* 丁真 珍珠 理塘
        >>]
    >>

(* _internet_pattern_match(text, keyword) *)
InternetPatternMatch(text, keyword) ==
    \E p \in 1..Len(match_internet_patterns) :
        LET data == match_internet_patterns[p]
        IN  /\ \E k \in 1..Len(data.keywords) : Contains(keyword, data.keywords[k])
            /\ \E i \in 1..Len(data.patterns) :
                   Contains(Lower(text), Lower(data.patterns[i]))

(* the table of _contextual_semantic_match, its three categories in a row *)
context_keywords == <<
    <<36825, 20010, 20154>>, <<36825, 20301>>, <<22823, 20332>>, <<32769, 24072>>, <<21733>>, <<22992>>,   \* 这个人 这位 大佬 老师 哥 姐
    <<20804, 24351>>, <<26379, 21451>>, <<20027, 25773>>, <<117, 112, 20027>>, <<21457, 29983>>, <<20986, 29616>>,   \* 兄弟 朋友 主播 up主 发生 出现
    <<30475, 21040>>, <<21548, 35828>>, <<30693, 36947>>, <<20102, 35299>>, <<30475, 21040>>, <<36935, 21040>>,   \* 看到 听说 知道 了解 看到 遇到
    <<35273, 24471>>, <<35748, 20026>>, <<24863, 35273>>, <<22909, 20687>>, <<20284, 20046>>, <<21487, 33021>>,   \* 觉得 认为 感觉 好像 似乎 可能
    <<24212, 35813>>, <<30830, 23454>>   \* 应该 确实
>>

(* the family-name characters of _contextual_semantic_match *)
surname_chars == {23385, 26446, 24352, 29579, 21016, 38472, 26472, 36213, 40644, 21608}   \* 孙 李 张 王 刘 陈 杨 赵 黄 周

(* re.findall("[一-鿿]{2,4}", text): greedy, left to right *)
RECURSIVE FindCJKNames(_, _)
FindCJKNames(s, i) ==
    IF i > Len(s) THEN <<>>
    ELSE LET n == Min2(RunLength(s, i, "cjk"), 4)
         IN  IF n < 2 THEN FindCJKNames(s, i + 1)
             ELSE <<SubSeq(s, i, i + n - 1)>> \o FindCJKNames(s, i + n)

(* re.findall("[A-Z][a-z]+", text) *)
RECURSIVE FindLatinNames(_, _)
FindLatinNames(s, i) ==
    IF i > Len(s) THEN <<>>
    ELSE LET n == IF IsUpperAscii(s[i]) THEN RunLength(s, i + 1, "lower") ELSE 0
         IN  IF n = 0 THEN FindLatinNames(s, i + 1)
             ELSE <<SubSeq(s, i, i + n)>> \o FindLatinNames(s, i + n + 1)

(* _contextual_semantic_match(text, keyword) *)
ContextualSemanticMatch(text, keyword) ==
    /\ Len(keyword) <= 4
    /\ CharSet(keyword) \cap surname_chars # {}
    /\ \E c \in 1..Len(context_keywords) : Contains(text, context_keywords[c])
    /\ LET matches == FindCJKNames(text, 1) \o FindLatinNames(text, 1)
       IN  \E m \in 1..Len(matches) :
               FracAbove(CalculateTextSimilarity(Lower(matches[m]), keyword), 1, 2)

(* _pinyin_similarity_match(text, keyword): the module never imports difflib
   (lines 339 and 415 import it inside two other functions), so line 542
   raises NameError, which line 547 catches: the function returns False *)
PinyinSimilarityMatch(text, keyword) == FALSE

(* a message dict as the matcher reads it: content is a str ("str"), the key
   is absent ("missing"), or the value is JSON null, Python None ("null") *)
StrMessage(content) == [kind |-> "str", content |-> content]
MissingContentMessage == [kind |-> "missing", content |-> <<>>]
NullContentMessage == [kind |-> "null", content |-> <<>>]

(* str(None) *)
StrOfNone == <<78, 111, 110, 101>>

(* text = message.get('content', '').lower().strip() *)
NormalizeText_NoLower(content) == Strip(content)

NormalizeText(content) == Strip(Lower(content))

(* if not text or not keyword_variants: return False *)
GuardReturnsFalse(text, keyword_variants) == text = <<>> \/ keyword_variants = <<>>

(* the six strategies in the order of the code; each is evaluated only when
   the ones before it failed *)
StrategyNames == <<"direct", "similarity", "fuzzy", "internet", "contextual", "pinyin">>

StrategyFires(n, text, keyword_variants) ==
    LET original_keyword == Lower(keyword_variants[1])
    IN  CASE n = 1 -> \E v \in 1..Len(keyword_variants) :
                          Contains(text, keyword_variants[v])
          [] n = 2 -> \E v \in 1..Len(keyword_variants) :
                          FracAtLeast(CalculateTextSimilarity(text, keyword_variants[v]), 6, 10)
          [] n = 3 -> FuzzyWordMatch(text, keyword_variants)
          [] n = 4 -> InternetPatternMatch(text, original_keyword)
          [] n = 5 -> ContextualSemanticMatch(text, original_keyword)
          [] n = 6 -> PinyinSimilarityMatch(text, original_keyword)

RECURSIVE RunStrategies(_, _, _, _)
RunStrategies(n, text, keyword_variants, evaluated) ==
    IF n > Len(StrategyNames)
    THEN [value |-> FALSE, raised |-> FALSE, path |-> "strategies", evaluated |-> evaluated]
    ELSE IF StrategyFires(n, text, keyword_variants)
    THEN [value |-> TRUE, raised |-> FALSE, path |-> "strategies",
          evaluated |-> Append(evaluated, StrategyNames[n])]
    ELSE RunStrategies(n + 1, text, keyword_variants, Append(evaluated, StrategyNames[n]))

(* the except branch: any(variant in str(message.get('content', '')).lower() ...) *)
FallbackMatch(message, keyword_variants) ==
    LET s == IF message.kind = "null" THEN Lower(StrOfNone) ELSE Lower(message.content)
    IN  [value     |-> \E v \in 1..Len(keyword_variants) : Contains(s, keyword_variants[v]),
         raised    |-> FALSE,
         path      |-> "except",
         evaluated |-> <<>>]

(* the try body; .lower() on None raises AttributeError *)
TryBodyRaises(message) == message.kind = "null"

(* the call without the try/except: the AttributeError leaves the function *)
IsSemanticallyRelated_NoExcept(message, keyword_variants) ==
    IF TryBodyRaises(message)
    THEN [value |-> FALSE, raised |-> TRUE, path |-> "raise", evaluated |-> <<>>]
    ELSE LET text == NormalizeText(message.content)
         IN  IF GuardReturnsFalse(text, keyword_variants)
             THEN [value |-> FALSE, raised |-> FALSE, path |-> "guard", evaluated |-> <<>>]
             ELSE RunStrategies(1, text, keyword_variants, <<>>)

(* _is_semantically_related(message, keyword_variants): the result, whether
   the call raised, the branch that returned and the strategies evaluated *)
IsSemanticallyRelated(message, keyword_variants) ==
    IF TryBodyRaises(message)
    THEN FallbackMatch(message, keyword_variants)
    ELSE LET text == NormalizeText(message.content)
         IN  IF GuardReturnsFalse(text, keyword_variants)
             THEN [value |-> FALSE, raised |-> FALSE, path |-> "guard", evaluated |-> <<>>]
             ELSE RunStrategies(1, text, keyword_variants, <<>>)

(***************************************************************************)
(* DebugMessageFilter._is_semantically_related (debug_message_filter.py):  *)
(* substring, then SequenceMatcher ratio of the whole text >= 0.5, then    *)
(* token containment.                                                      *)
(***************************************************************************)
DebugTokenPairMatches(kw_token, text_token) ==
    /\ Contains(text_token, kw_token) \/ Contains(kw_token, text_token)
    /\ Len(kw_token) >= 2

DebugIsSemanticallyRelated(raw_text, keyword_variants) ==
    LET text == Strip(Lower(raw_text))
        text_tokens == simple_tokenize(text)
        keyword_tokens == Flatten([v \in 1..Len(keyword_variants) |->
                                      simple_tokenize(keyword_variants[v])])
    IN  IF text = <<>> THEN FALSE
        ELSE \/ \E v \in 1..Len(keyword_variants) : Contains(text, keyword_variants[v])
             \/ \E v \in 1..Len(keyword_variants) :
                    FracAtLeast(Ratio(text, keyword_variants[v]), 1, 2)
             \/ \E k \in 1..Len(keyword_tokens) : \E t \in 1..Len(text_tokens) :
                    DebugTokenPairMatches(keyword_tokens[k], text_tokens[t])


(***************************************************************************)
(* MessageHandler._expand_keyword_variants and its generators              *)
(* (message_handler.py).                                                   *)
(***************************************************************************)
(* [f(x) for x in list], flattened: each x contributes the list Item(x) *)
RECURSIVE ConcatOver(_, _)
ConcatOver(list, acc) ==
    IF list = <<>> THEN acc ELSE ConcatOver(Tail(list), acc \o Head(list))

char_prefixes == <<
    <<22823>>, <<23567>>, <<32769>>, <<26032>>, <<36229, 32423>>, <<30495, 30340>>, <<20551, 30340>>   \* 大 小 老 新 超级 真的 假的
>>

char_suffixes == <<
    <<20102>>, <<30340>>, <<19968, 19979>>, <<20102>>, <<20102>>, <<21834>>, <<21568>>, <<21602>>   \* 了 的 一下 了 了 啊 呀 呢
>>

(* _generate_char_variants(keyword) *)
GenerateCharVariants(keyword) ==
    (IF Len(keyword) <= 4
     THEN <<keyword \o keyword>>
          \o (IF Len(keyword) >= 2
              THEN <<<<keyword[1]>> \o keyword, keyword \o <<keyword[Len(keyword)]>>>>
              ELSE <<>>)
     ELSE <<>>)
    \o [i \in 1..Len(char_prefixes) |-> char_prefixes[i] \o keyword]
    \o [i \in 1..Len(char_suffixes) |-> keyword \o char_suffixes[i]]

(* the table internet_patterns of _generate_internet_variants *)
expand_internet_patterns == <<
    [person |-> <<23385, 31505, 24029>>,   \* 孙笑川
     related |-> <<
            <<25277, 35937>>, <<24102, 24072>>, <<110, 109, 36, 108>>, <<26032, 27941>>,   \* 抽象 带师 nm$l 新津
            <<24694, 20439>>, <<29399, 31881, 19997>>, <<54, 51, 50, 52>>, <<21992, 31881>>   \* 恶俗 狗粉丝 6324 嗨粉
        >>],
    [person |-> <<34081, 24464, 22372>>,   \* 蔡徐坤
     related |-> <<
            <<40481, 21733>>, <<40481, 20320, 22826, 32654>>, <<31726, 29699>>, <<32451, 20064, 29983>>,   \* 鸡哥 鸡你太美 篮球 练习生
            <<20004, 24180, 21322>>, <<23567, 40657, 23376>>   \* 两年半 小黑子
        >>],
    [person |-> <<19969, 30495>>,   \* 丁真
     related |-> <<
            <<29645, 29664>>, <<29702, 22616>>, <<30005, 23376, 28895>>, <<38160, 21051, 53>>,   \* 珍珠 理塘 电子烟 锐刻5
            <<32431, 30495>>, <<19968, 30524, 30495>>   \* 纯真 一眼真
        >>],
    [person |-> <<39532, 20445, 22269>>,   \* 马保国
     related |-> <<
            <<32791, 23376, 23614, 27713>>, <<24180, 36731, 20154, 19981, 35762, 27494, 24503>>, <<20256, 32479, 21151, 22827>>, <<25509, 21270, 21457>>,   \* 耗子尾汁 年轻人不讲武德 传统功夫 接化发
            <<38378, 30005, 20116, 36830, 38829>>   \* 闪电五连鞭
        >>],
    [person |-> <<26446, 36195>>,   \* 李赣
     related |-> <<
            <<54, 51, 50, 52>>, <<25277, 35937>>, <<21992, 31881>>, <<29399, 31881, 19997>>,   \* 6324 抽象 嗨粉 狗粉丝
            <<24102, 26126, 26143>>, <<24102, 31168>>   \* 带明星 带秀
        >>]
>>

(* the homophone rules: a character of the keyword and what it adds *)
homophones == <<
    [char |-> <<31505>>,   \* 笑
     related |-> <<
            <<23389>>, <<26657>>, <<25928>>, <<21880>>   \* 孝 校 效 啸
        >>],
    [char |-> <<24029>>,   \* 川
     related |-> <<
            <<31359>>, <<20256>>, <<33337>>, <<21912>>   \* 穿 传 船 喘
        >>],
    [char |-> <<22372>>,   \* 坤
     related |-> <<
            <<40114>>, <<26118>>, <<25414>>, <<22256>>   \* 鲲 昆 捆 困
        >>]
>>

abbreviations == <<
    [abbr |-> <<121, 121, 100, 115>>,   \* yyds
     full |-> <<
            <<27704, 36828, 30340, 31070>>, <<27704, 36828, 28404, 31070>>   \* 永远的神 永远滴神
        >>],
    [abbr |-> <<120, 115, 119, 108>>,   \* xswl
     full |-> <<
            <<31505, 27515, 25105, 20102>>   \* 笑死我了
        >>],
    [abbr |-> <<122, 113, 115, 103>>,   \* zqsg
     full |-> <<
            <<30495, 24773, 23454, 24863>>   \* 真情实感
        >>],
    [abbr |-> <<117, 49, 115, 49>>,   \* u1s1
     full |-> <<
            <<26377, 19968, 35828, 19968>>   \* 有一说一
        >>],
    [abbr |-> <<100, 100, 100, 100>>,   \* dddd
     full |-> <<
            <<25026, 30340, 37117, 25026>>   \* 懂的都懂
        >>]
>>

(* str(full): the repr of a list of str, "['x', 'y']" *)
RECURSIVE QuotedItems(_)
QuotedItems(list) ==
    IF list = <<>> THEN <<>>
    ELSE <<<<39>> \o Head(list) \o <<39>>>> \o QuotedItems(Tail(list))

StrOfList(list) == <<91>> \o Join(QuotedItems(list), <<44, 32>>) \o <<93>>

(* _generate_internet_variants(keyword) *)
GenerateInternetVariants(keyword) ==
    ConcatOver([p \in 1..Len(expand_internet_patterns) |->
                   LET e == expand_internet_patterns[p]
                   IN  IF Contains(e.person, keyword) \/ Contains(keyword, e.person)
                       THEN e.related ELSE <<>>], <<>>)
    \o ConcatOver([h \in 1..Len(homophones) |->
                   IF Contains(keyword, homophones[h].char)
                   THEN homophones[h].related ELSE <<>>], <<>>)
    \o ConcatOver([a \in 1..Len(abbreviations) |->
                   LET e == abbreviations[a]
                   IN  IF keyword = e.abbr THEN e.full
                       ELSE IF Contains(StrOfList(e.full), keyword) THEN <<e.abbr>>
                       ELSE <<>>], <<>>)

(* the kinship endings of _generate_semantic_variants: if / elif in this order *)
kinship == <<
    [ending |-> <<21733>>,   \* 哥
     related |-> <<
            <<21733, 21733>>, <<22823, 21733>>, <<32769, 21733>>, <<21733, 20799>>,   \* 哥哥 大哥 老哥 哥儿
            <<21733, 23376>>   \* 哥子
        >>],
    [ending |-> <<22992>>,   \* 姐
     related |-> <<
            <<22992, 22992>>, <<22823, 22992>>, <<32769, 22992>>, <<22992, 20799>>   \* 姐姐 大姐 老姐 姐儿
        >>],
    [ending |-> <<24351>>,   \* 弟
     related |-> <<
            <<24351, 24351>>, <<23567, 24351>>, <<32769, 24351>>, <<24351, 20799>>   \* 弟弟 小弟 老弟 弟儿
        >>],
    [ending |-> <<22969>>,   \* 妹
     related |-> <<
            <<22969, 22969>>, <<23567, 22969>>, <<32769, 22969>>, <<22969, 20799>>   \* 妹妹 小妹 老妹 妹儿
        >>]
>>

emotion_words == <<
    <<21916, 27426>>, <<35752, 21388>>, <<29233>>, <<24680>>, <<24819>>, <<24565>>, <<28902>>, <<24833>>, <<24320, 24515>>, <<38590, 36807>>   \* 喜欢 讨厌 爱 恨 想 念 烦 愁 开心 难过
>>

action_words == <<
    <<30475>>, <<21548>>, <<35828>>, <<24819>>, <<20570>>, <<29609>>, <<23398>>, <<21507>>, <<21917>>, <<20080>>   \* 看 听 说 想 做 玩 学 吃 喝 买
>>

(* for w in words: variants.append(w + keyword); variants.append(keyword + w) *)
AroundKeyword(words, keyword) ==
    [i \in 1..(2 * Len(words)) |->
        IF i % 2 = 1 THEN words[(i + 1) \div 2] \o keyword
        ELSE keyword \o words[i \div 2]]

(* _generate_semantic_variants(keyword) *)
GenerateSemanticVariants(keyword) ==
    (IF Len(keyword) <= 3 /\ \E k \in 1..Len(kinship) : EndsWith(keyword, kinship[k].ending)
     THEN kinship[SetMin({k \in 1..Len(kinship) :
                             EndsWith(keyword, kinship[k].ending)})].related
     ELSE <<>>)
    \o AroundKeyword(emotion_words, keyword)
    \o AroundKeyword(action_words, keyword)

(* the values of the dict contexts of _generate_contextual_variants, in order *)
contexts == <<
    <<36825, 20010, 20154>>, <<36825, 20301>>, <<22823, 20332>>, <<32769, 24072>>, <<21733>>, <<22992>>, <<20804, 24351>>, <<26379, 21451>>,   \* 这个人 这位 大佬 老师 哥 姐 兄弟 朋友
    <<22312>>, <<21435>>, <<21040>>, <<20174>>, <<26469>>, <<22238>>, <<36335, 36807>>, <<32463, 36807>>,   \* 在 去 到 从 来 回 路过 经过
    <<20170, 22825>>, <<26152, 22825>>, <<26126, 22825>>, <<21018, 25165>>, <<21018, 21018>>, <<29616, 22312>>, <<20197, 21518>>, <<20197, 21069>>,   \* 今天 昨天 明天 刚才 刚刚 现在 以后 以前
    <<30495, 30340>>, <<20551, 30340>>, <<22826>>, <<24456>>, <<36229, 32423>>, <<29305, 21035>>, <<38750, 24120>>, <<26377, 28857>>,   \* 真的 假的 太 很 超级 特别 非常 有点
    <<31245, 24494>>   \* 稍微
>>

(* _generate_contextual_variants(keyword) *)
GenerateContextualVariants(keyword) == AroundKeyword(contexts, keyword)

common_chars == <<
    <<30340>>, <<20102>>, <<23376>>, <<20799>>, <<21834>>, <<21568>>, <<21602>>, <<21543>>   \* 的 了 子 儿 啊 呀 呢 吧
>>

similar_chars == <<
    [original |-> 31505, similar |-> 23389],   \* 笑 孝
    [original |-> 24029, similar |-> 31359],   \* 川 穿
    [original |-> 23385, similar |-> 25439],   \* 孙 损
    [original |-> 22372, similar |-> 40114],   \* 坤 鲲
    [original |-> 34081, similar |-> 33756],   \* 蔡 菜
    [original |-> 24464, similar |-> 35768],   \* 徐 许
    [original |-> 19969, similar |-> 38025],   \* 丁 钉
    [original |-> 30495, similar |-> 38024]   \* 真 针
    >>

(* keyword.replace(original, similar), single characters *)
ReplaceChar(s, original, similar) ==
    [i \in 1..Len(s) |-> IF s[i] = original THEN similar ELSE s[i]]

(* _generate_fuzzy_variants(keyword) *)
GenerateFuzzyVariants(keyword) ==
    IF Len(keyword) < 2 THEN <<>>
    ELSE [i \in 1..Len(keyword) |->
             SubSeq(keyword, 1, i - 1) \o SubSeq(keyword, i + 1, Len(keyword))]
         \o ConcatOver([c \in 1..Len(common_chars) |->
                [i \in 1..(Len(keyword) + 1) |->
                    SubSeq(keyword, 1, i - 1) \o common_chars[c]
                    \o SubSeq(keyword, i, Len(keyword))]], <<>>)
         \o ConcatOver([r \in 1..Len(similar_chars) |->
                IF similar_chars[r].original \in CharSet(keyword)
                THEN <<ReplaceChar(keyword, similar_chars[r].original,
                                   similar_chars[r].similar)>>
                ELSE <<>>], <<>>)

(* _calculate_relevance_score(original, variant) as an exact fraction:
   similarity * 50, + 30 when one contains the other, + overlap/len * 20 *)
CalculateRelevanceScore(original, variant) ==
    IF original = variant THEN [num |-> 100, den |-> 1]
    ELSE LET r == Ratio(original, variant)
             contained == Contains(variant, original) \/ Contains(original, variant)
             overlap == Cardinality(CharSet(original) \cap CharSet(variant))
             n == Cardinality(CharSet(original))
             score == [num |-> 50 * r.num * n
                               + (IF contained THEN 30 ELSE 0) * r.den * n
                               + 20 * overlap * r.den,
                       den |-> r.den * n]
         IN  IF FracLess([num |-> 100, den |-> 1], score)
             THEN [num |-> 100, den |-> 1] ELSE score

(* the five generators in the order their lists are appended to `variants` *)
GeneratorCount == 5

GeneratedBy(g, keyword) ==
    CASE g = 1 -> GenerateCharVariants(keyword)
      [] g = 2 -> GenerateInternetVariants(keyword)
      [] g = 3 -> GenerateSemanticVariants(keyword)
      [] g = 4 -> GenerateContextualVariants(keyword)
      [] g = 5 -> GenerateFuzzyVariants(keyword)

(* the test of the deduplication loop, on the stripped variant; `earlier` is
   the list of stripped variants that the loop has visited before this one.
   The loop tests `variant not in seen`, and a variant is in `seen` exactly
   when an equal variant was visited earlier and passed the first two tests,
   which are the same for equal variants *)
IsKept_AllowKeyword(variant, keyword, earlier) ==
    variant # <<>> /\ ~InList(earlier, variant)

IsKept(variant, keyword, earlier) ==
    variant # <<>> /\ variant # keyword /\ ~InList(earlier, variant)

(* the deduplication loop: the stripped variants that are not empty, not the
   keyword and not seen before, in first-seen order *)
UniqueVariants(variants, keyword) ==
    LET n == Len(variants)
        stripped == <<>> \o [i \in 1..n |-> Strip(variants[i])]
        kept == {i \in 1..n :
                    IsKept(stripped[i], keyword, SubSeq(stripped, 1, i - 1))}
        position == <<>> \o [i \in 1..n |-> Cardinality({j \in kept : j <= i})]
    IN  [k \in 1..Cardinality(kept) |->
            stripped[CHOOSE i \in kept : position[i] = k]]

(* unique_variants.sort(key=score, reverse=True): stable, so an item comes
   after the items with a higher score and after the earlier items with the
   same score *)
PlacedByScore(unique, score) ==
    LET n == Len(unique)
        before(i) == Cardinality({j \in 1..n :
                        \/ FracLess(score[i], score[j])
                        \/ (~FracLess(score[j], score[i]) /\ j < i)})
        place == <<>> \o [i \in 1..n |-> before(i) + 1]
    IN  [k \in 1..n |-> unique[CHOOSE i \in 1..n : place[i] = k]]

SortedByScore_GenerationOrder(unique, keyword) == unique

SortedByScore(unique, keyword) ==
    PlacedByScore(unique,
                  <<>> \o [i \in 1..Len(unique) |->
                              CalculateRelevanceScore(keyword, unique[i])])

(* unique_variants[:30] *)
max_variants == 30

(* final_variants = [keyword] + [item[0] for item in unique_variants[:30]] *)
FinalVariants(keyword, sorted) ==
    <<keyword>> \o SubSeq(sorted, 1, Min2(Len(sorted), max_variants))

(* keyword = keyword.lower().strip() *)
NormalizeKeyword(keyword) == Strip(Lower(keyword))

(* _expand_keyword_variants(keyword), the whole call *)
ExpandKeywordVariants(raw_keyword) ==
    LET keyword == NormalizeKeyword(raw_keyword)
    IN  IF keyword = <<>> THEN <<>>
        ELSE LET variants == <<keyword>>
                              \o ConcatOver([g \in 1..GeneratorCount |->
                                                GeneratedBy(g, keyword)], <<>>)
             IN  FinalVariants(keyword,
                               SortedByScore(UniqueVariants(variants, keyword),
                                             keyword))

(***************************************************************************)
(* DebugMessageFilter._expand_keyword_variants (debug_message_filter.py):  *)
(* the keyword and a fixed list, returned as list(set(variants)).          *)
(***************************************************************************)
debug_extensions == <<
    <<38169, 35823>>, <<24322, 24120>>, <<98, 117, 103>>, <<25925, 38556>>, <<38382, 39064>>,   \* 错误 异常 bug 故障 问题
    <<101, 114, 114, 111, 114>>, <<101, 120, 99, 101, 112, 116, 105, 111, 110>>, <<23849, 28291>>, <<20986, 38169>>, <<24590, 20040, 21150>>,   \* error exception 崩溃 出错 怎么办
    <<24590, 20040, 35299, 20915>>, <<27714, 21161>>, <<24110, 24110, 25105>>, <<25937, 21629>>, <<24613>>,   \* 怎么解决 求助 帮帮我 救命 急
    <<22312, 32447, 31561>>, <<22351, 20102>>, <<19981, 34892, 20102>>, <<20986, 38382, 39064, 20102>>, <<23849, 20102>>,   \* 在线等 坏了 不行了 出问题了 崩了
    <<25346, 20102>>, <<27515, 26426, 20102>>, <<25171, 19981, 24320>>, <<26080, 27861, 21551, 21160>>, <<36816, 34892, 19981, 20102>>,   \* 挂了 死机了 打不开 无法启动 运行不了
    <<38378, 36864, 20102>>, <<26080, 21709, 24212>>   \* 闪退了 无响应
>>

RECURSIVE FirstSeen(_, _)
FirstSeen(list, seen) ==
    IF list = <<>> THEN seen
    ELSE FirstSeen(Tail(list),
                   IF InList(seen, Head(list)) THEN seen ELSE Append(seen, Head(list)))

(* the elements of set(variants) *)
DebugVariantList(raw_keyword) ==
    FirstSeen(<<Strip(Lower(raw_keyword))>> \o debug_extensions, <<>>)

(* list(set(variants)): the order of a set of str follows the hashes of the
   strings, which CPython salts per process; the orders drawn here are the
   rotations of the list, which put each element first *)
Rotation(list, k) ==
    [i \in 1..Len(list) |-> list[((i + k - 1) % Len(list)) + 1]]

DebugExpandOutcomes(raw_keyword) ==
    LET list == DebugVariantList(raw_keyword)
    IN  {Rotation(list, k) : k \in 0..(Len(list) - 1)}

(***************************************************************************)
(* TopicAnalyzer._identify_conversation_type and _extract_key_points       *)
(* (topic_analyzer.py), as _analyze_conversation_flow calls them.          *)
(***************************************************************************)
(* the values of `conversation_type`: 问答讨论 建议分享 经验交流 简短回应 自由讨论,
   and 无内容 for a flow without messages *)
qa_discussion == <<38382, 31572, 35752, 35770>>
advice_sharing == <<24314, 35758, 20998, 20139>>
experience_sharing == <<32463, 39564, 20132, 27969>>
short_response == <<31616, 30701, 22238, 24212>>
free_discussion == <<33258, 30001, 35752, 35770>>
no_content == <<26080, 20869, 23481>>

(* 什么 哪里 怎么 为什么 如何 ？ ? *)
question_markers == <<<<20160, 20040>>, <<21738, 37324>>, <<24590, 20040>>, <<20026, 20160, 20040>>, <<22914, 20309>>, <<65311>>, <<63>>>>

(* 建议 推荐 试试 可以考虑 不如 *)
advice_markers == <<<<24314, 35758>>, <<25512, 33616>>, <<35797, 35797>>, <<21487, 20197, 32771, 34385>>, <<19981, 22914>>>>

(* 经验 经历 试过 之前 上次 *)
experience_markers == <<<<32463, 39564>>, <<32463, 21382>>, <<35797, 36807>>, <<20043, 21069>>, <<19978, 27425>>>>

(* 好 行 可以 嗯 哈哈 *)
short_markers == <<<<22909>>, <<34892>>, <<21487, 20197>>, <<21999>>, <<21704, 21704>>>>

(* any(word in combined_text for word in words) *)
AnyIn(words, combined_text) ==
    \E w \in 1..Len(words) : Contains(combined_text, words[w])

(* _identify_conversation_type(contents), with the tests in another order *)
IdentifyConversationType_AdviceFirst(contents) ==
    LET combined_text == Lower(Join(contents, <<32>>))
    IN  IF AnyIn(advice_markers, combined_text) THEN advice_sharing
        ELSE IF AnyIn(question_markers, combined_text) THEN qa_discussion
        ELSE IF AnyIn(experience_markers, combined_text) THEN experience_sharing
        ELSE IF Len(contents) <= 3 /\ AnyIn(short_markers, combined_text)
        THEN short_response
        ELSE free_discussion

(* _identify_conversation_type(contents) *)
IdentifyConversationType(contents) ==
    LET combined_text == Lower(Join(contents, <<32>>))
    IN  IF AnyIn(question_markers, combined_text) THEN qa_discussion
        ELSE IF AnyIn(advice_markers, combined_text) THEN advice_sharing
        ELSE IF AnyIn(experience_markers, combined_text) THEN experience_sharing
        ELSE IF Len(contents) <= 3 /\ AnyIn(short_markers, combined_text)
        THEN short_response
        ELSE free_discussion

(* 好 行 可以 嗯 哦 哈哈 谢谢 *)
filler_words == <<<<22909>>, <<34892>>, <<21487, 20197>>, <<21999>>, <<21734>>, <<21704, 21704>>, <<35874, 35874>>>>

(* "..." *)
Ellipsis == <<46, 46, 46>>

(* the candidate one content contributes: none, the content, or its first 50
   characters and "..." *)
KeyPointOf(raw_content) ==
    LET content == Strip(raw_content)
    IN  IF Len(content) > 10
        THEN <<IF Len(content) > 50 THEN SubSeq(content, 1, 50) \o Ellipsis ELSE content>>
        ELSE IF content # <<>> /\ ~InList(filler_words, content)
        THEN <<content>>
        ELSE <<>>

(* local `key_points` after the loop: the candidates in message order *)
KeyPointCandidates(contents) ==
    ConcatOver([i \in 1..Len(contents) |-> KeyPointOf(contents[i])], <<>>)

(* unique_points[:5] *)
max_key_points == 5

FirstFive(points) == SubSeq(points, 1, Min2(Len(points), max_key_points))

(* list(set(key_points))[:5]: the set iterates in hash order, which CPython
   salts per process; the orders drawn are the rotations of the distinct
   candidates, which put each of them first *)
ExtractKeyPointsOutcomes(contents) ==
    LET unique_points == FirstSeen(KeyPointCandidates(contents), <<>>)
    IN  IF unique_points = <<>> THEN {<<>>}
        ELSE {FirstFive(Rotation(unique_points, k)) : k \in 0..(Len(unique_points) - 1)}

(***************************************************************************)
(* sorted(messages, key=lambda x: x["time"]): Python's sort is stable, so  *)
(* an element goes after every element whose key is <= its own.            *)
(***************************************************************************)
RECURSIVE InsertByTime(_, _)
InsertByTime(s, m) ==
    IF s = <<>> THEN <<m>>
    ELSE IF s[Len(s)].time <= m.time THEN Append(s, m)
    ELSE Append(InsertByTime(SubSeq(s, 1, Len(s) - 1), m), s[Len(s)])

RECURSIVE SortedByTimeFrom(_)
SortedByTimeFrom(msgs) ==
    IF msgs = <<>> THEN <<>>
    ELSE InsertByTime(SortedByTimeFrom(SubSeq(msgs, 1, Len(msgs) - 1)), msgs[Len(msgs)])

(* a sort that was forgotten: the loop runs over the list as supplied *)
SortedByTime_Unsorted(msgs) == msgs

SortedByTime(msgs) == SortedByTimeFrom(msgs)

(***************************************************************************)
(* sessions.sort(key=lambda x: x["start_time"]), stable as well.           *)
(***************************************************************************)
RECURSIVE InsertByStart(_, _)
InsertByStart(s, x) ==
    IF s = <<>> THEN <<x>>
    ELSE IF s[Len(s)].start_time <= x.start_time THEN Append(s, x)
    ELSE Append(InsertByStart(SubSeq(s, 1, Len(s) - 1), x), s[Len(s)])

RECURSIVE SortedByStart(_)
SortedByStart(ss) ==
    IF ss = <<>> THEN <<>>
    ELSE InsertByStart(SortedByStart(SubSeq(ss, 1, Len(ss) - 1)), ss[Len(ss)])

(***************************************************************************)
(* The body of the segmenter.                                              *)
(***************************************************************************)
(* the entry appended to current_session: {"sender", "content", "time"} *)
SessionEntry(msg) == [id |-> msg.id, time |-> msg.time]

(* time_diff <= self.interrupt_threshold *)
BelongsToCurrent_Strict(time_diff, thr) == time_diff < thr

BelongsToCurrent(time_diff, thr) == time_diff <= thr

(* len(current_session) > 1: only clusters of several messages are saved *)
IsSaved_AtLeastOne(cs) == Len(cs) >= 1

IsSaved_MoreThanTwo(cs) == Len(cs) > 2

IsSaved(cs) == Len(cs) > 1

(* the dict appended to `sessions` *)
MakeSession_StartEndSwapped(cs) ==
    [messages      |-> cs,
     start_time    |-> cs[Len(cs)].time,
     end_time      |-> cs[1].time,
     duration      |-> cs[1].time - cs[Len(cs)].time,
     message_count |-> Len(cs)]

MakeSession(cs) ==
    [messages      |-> cs,
     start_time    |-> cs[1].time,
     end_time      |-> cs[Len(cs)].time,
     duration      |-> cs[Len(cs)].time - cs[1].time,
     message_count |-> Len(cs)]

(* current_session = [entry] after a break *)
RestartSession_KeepOld(cs, entry) == Append(cs, entry)

RestartSession_Empty(cs, entry) == <<>>

RestartSession(cs, entry) == <<entry>>

(* one iteration of `for msg in sorted_messages`, on st = [cur, sess] *)
LoopStep(st, msg, thr) ==
    IF st.cur = <<>>
    THEN [cur |-> <<SessionEntry(msg)>>, sess |-> st.sess]
    ELSE IF BelongsToCurrent(msg.time - st.cur[Len(st.cur)].time, thr)
    THEN [cur |-> Append(st.cur, SessionEntry(msg)), sess |-> st.sess]
    ELSE [cur  |-> RestartSession(st.cur, SessionEntry(msg)),
          sess |-> IF IsSaved(st.cur) THEN Append(st.sess, MakeSession(st.cur))
                   ELSE st.sess]

(* after the loop: the trailing cluster, then the sort by start_time *)
Finalize(st) ==
    SortedByStart(IF st.cur # <<>> /\ IsSaved(st.cur)
                  THEN Append(st.sess, MakeSession(st.cur))
                  ELSE st.sess)

RECURSIVE LoopFrom(_, _, _)
LoopFrom(st, msgs, thr) ==
    IF msgs = <<>> THEN st
    ELSE LoopFrom(LoopStep(st, Head(msgs), thr), Tail(msgs), thr)

(* the whole call, as a function of its arguments *)
IdentifySessions(msgs, thr) ==
    Finalize(LoopFrom([cur |-> <<>>, sess |-> <<>>], SortedByTime(msgs), thr))

(***************************************************************************)
(* Inputs of the segmenter.                                                *)
(***************************************************************************)
MkMessages(times) == [i \in 1..Len(times) |-> [id |-> i, time |-> times[i]]]

ScenarioTimes == <<0, 100, 200, 3000, 3100>>

TimeLists == SeqsUpTo(0..MaxTime, MaxMsgs) \cup {ScenarioTimes}

Thresholds == (0..MaxGap) \cup {interrupt_threshold_default}

(***************************************************************************)
(* TopicAnalyzer.analyze_topic_messages (topic_analyzer.py).               *)
(*                                                                         *)
(* A message of the analysis is a record [has_sender, sender, has_time,    *)
(* time]: sender is msg["sender"], a record [user_id, card, has_nickname,  *)
(* nickname] with card = <<>> for an absent or empty card; time is         *)
(* msg["time"].  The messages carry their text under "message", as the     *)
(* history API delivers them, and have no "content" key.                   *)
(***************************************************************************)
(* str(n) for a natural number *)
RECURSIVE DecimalStr(_)
DecimalStr(n) ==
    IF n < 10 THEN <<48 + n>> ELSE DecimalStr(n \div 10) \o <<48 + (n % 10)>>

(* sender_id = str(msg["sender"]["user_id"]) *)
SenderId(msg) == DecimalStr(msg.sender.user_id)

(* sender_name = msg["sender"].get("card") or
                 msg["sender"].get("nickname", sender_id) *)
SenderName(msg) ==
    IF msg.sender.card # <<>> THEN msg.sender.card
    ELSE IF msg.sender.has_nickname THEN msg.sender.nickname
    ELSE SenderId(msg)

(* if len(analysis_result["key_discussions"]) < 20 *)
max_key_discussions == 20

(* the KeyError the loop body raises on message i: msg["sender"] at line 46,
   msg["time"] at line 66 while key_discussions is still collected *)
LoopBodyRaises(msgs, i) ==
    \/ ~msgs[i].has_sender
    \/ (~msgs[i].has_time /\ i <= max_key_discussions)

(* A topic summary is a sentence, preceded or not by the nicknames of
   participants; it is kept as the set of the nicknames it is composed from
   and the sentence.  The empty string has neither. *)
Summary(nicknames, sentence) == [participants |-> nicknames, sentence |-> sentence]

empty_summary == Summary({}, <<>>)

(* analysis_result as built at lines 32-42 *)
InitialResult(msgs, keyword, group_id) ==
    [keyword             |-> keyword,
     group_id            |-> group_id,
     total_messages      |-> Len(msgs),
     participants        |-> {},
     top_contributors    |-> <<>>,
     key_discussions     |-> <<>>,
     sentiment_summary   |-> <<>>,
     topic_summary       |-> empty_summary,
     discussion_sessions |-> <<>>]

(* top_contributors after the loop: a dict keeps its keys in insertion
   order, so the pairs (name, count) stand in first-seen order *)
CountContributors(msgs) ==
    LET names == <<>> \o [i \in 1..Len(msgs) |-> SenderName(msgs[i])]
        order == FirstSeen(names, <<>>)
    IN  [k \in 1..Len(order) |->
            [name  |-> order[k],
             count |-> Cardinality({i \in 1..Len(names) : names[i] = order[k]})]]

(* key_discussions after the loop; id is the position of the message and
   stands for its text and message_id *)
CollectKeyDiscussions(msgs) ==
    [i \in 1..Min2(Len(msgs), max_key_discussions) |->
        [sender |-> SenderName(msgs[i]), time |-> msgs[i].time, id |-> i]]

(* the loop of lines 45-68 on messages it does not raise on *)
CountLoop(result, msgs) ==
    [result EXCEPT
        !.participants = {SenderId(msgs[i]) : i \in 1..Len(msgs)},
        !.top_contributors = CountContributors(msgs),
        !.key_discussions = CollectKeyDiscussions(msgs)]

(* sorted(items, key=lambda x: x[1], reverse=True): stable, so pairs with
   equal counts keep their order *)
SortedByCount_TiesReversed(contributors) ==
    LET n == Len(contributors)
        place == <<>> \o [i \in 1..n |->
                    1 + Cardinality({j \in 1..n :
                            \/ contributors[j].count > contributors[i].count
                            \/ (contributors[j].count = contributors[i].count /\ j > i)})]
    IN  [k \in 1..n |-> contributors[CHOOSE i \in 1..n : place[i] = k]]

SortedByCount(contributors) ==
    LET n == Len(contributors)
        place == <<>> \o [i \in 1..n |->
                    1 + Cardinality({j \in 1..n :
                            \/ contributors[j].count > contributors[i].count
                            \/ (contributors[j].count = contributors[i].count /\ j < i)})]
    IN  [k \in 1..n |-> contributors[CHOOSE i \in 1..n : place[i] = k]]

(* [:15] *)
max_contributors == 15

(* dict(sorted(...)[:15]) *)
RankContributors(contributors) ==
    SubSeq(SortedByCount(contributors), 1, Min2(Len(contributors), max_contributors))

(* sorted(messages, key=lambda x: x["time"]) raises KeyError on a message
   without "time" *)
SessionsRaise(msgs) == \E i \in 1..Len(msgs) : ~msgs[i].has_time

(* sorted_messages = sorted(messages, ...) builds a new list: the list
   passed as `messages` is as it was when _identify_discussion_sessions
   returns *)
ArgumentAfterSort_InPlace(msgs) == SortedByTime(msgs)

ArgumentAfterSort(msgs) == msgs

(* self._identify_discussion_sessions(messages, keyword) *)
SessionsOf(msgs, thr) ==
    IdentifySessions([i \in 1..Len(msgs) |-> [id |-> i, time |-> msgs[i].time]], thr)

(* 暂无相关讨论, 未知, 进行了简短交流 *)
no_discussion_summary == <<26242, 26080, 30456, 20851, 35752, 35770>>
unknown_nickname == <<26410, 30693>>
brief_exchange == <<36827, 34892, 20102, 31616, 30701, 20132, 27969>>

(* msg.get('sender', {}).get('nickname', '未知') *)
SummaryNickname(msg) ==
    IF msg.has_sender /\ msg.sender.has_nickname THEN msg.sender.nickname
    ELSE unknown_nickname

(* _generate_topic_summary(messages, keyword).  Without "content" no message
   contributes to key_contents, so a list that is not empty gives
   f"{participant_names}进行了简短交流", where participant_names names up to
   three of the nicknames, in the order of list(set(...)) *)
GenerateTopicSummary(msgs, keyword) ==
    IF msgs = <<>> THEN Summary({}, no_discussion_summary)
    ELSE Summary({SummaryNickname(msgs[i]) : i \in 1..Len(msgs)}, brief_exchange)

(* lines 82-87: the summary is generated only when self.enable_llm *)
TopicSummary(enable_llm, result, msgs, keyword) ==
    IF enable_llm THEN GenerateTopicSummary(msgs, keyword)
    ELSE result.topic_summary

(***************************************************************************)
(* The components at rest: a specification of one component keeps the      *)
(* others here.                                                            *)
(***************************************************************************)
NoResult == [value |-> FALSE, raised |-> FALSE, path |-> "none", evaluated |-> <<>>]

SegmenterIdle ==
    /\ messages = <<>>
    /\ threshold = interrupt_threshold_default
    /\ pc = "idle"
    /\ sorted_messages = <<>>
    /\ idx = 1
    /\ current_session = <<>>
    /\ sessions = <<>>

MatcherIdle ==
    /\ mh_impl = "handler"
    /\ mh_message = MissingContentMessage
    /\ mh_variants = <<>>
    /\ mh_pc = "idle"
    /\ mh_result = NoResult
    /\ mh_prev = [called |-> FALSE, value |-> FALSE]

ExpandIdle ==
    /\ ex_impl = "handler"
    /\ ex_raw = <<>>
    /\ ex_keyword = <<>>
    /\ ex_variants = <<>>
    /\ ex_gen = 1
    /\ ex_pc = "idle"
    /\ ex_result = <<>>

ClassifyIdle ==
    /\ cl_contents = <<>>
    /\ cl_pc = "idle"
    /\ cl_type = <<>>
    /\ cl_key_points = <<>>

AnalyzeIdle ==
    /\ an_messages = <<>>
    /\ an_keyword = <<>>
    /\ an_group_id = <<>>
    /\ an_enable_llm = TRUE
    /\ an_pc = "idle"
    /\ an_result = <<>>
    /\ an_raised = "none"

ConcurrentIdle == cc_analyzer = <<>> /\ cc_lists = <<>> /\ cc_calls = <<>>

LevenshteinIdle ==
    /\ lv_a = <<>>
    /\ lv_b = <<>>
    /\ lv_s1 = <<>>
    /\ lv_s2 = <<>>
    /\ lv_pc = "idle"
    /\ lv_i = 0
    /\ lv_row = <<>>
    /\ lv_result = 0

FetchIdle ==
    /\ ft_group_id = <<>>
    /\ ft_days = 0
    /\ ft_keyword = <<>>
    /\ ft_pc = "idle"
    /\ ft_start_time = 0
    /\ ft_end_time = 0
    /\ ft_variants = <<>>
    /\ ft_messages = <<>>
    /\ ft_message_seq = 0
    /\ ft_query_rounds = 0
    /\ ft_failures = 0
    /\ ft_round = <<>>
    /\ ft_i = 0
    /\ ft_valid = 0
    /\ ft_oldest = 0
    /\ ft_calls = 0
    /\ ft_outcome = "none"
    /\ ft_returned = <<>>

StatusIdle ==
    /\ st_session = <<>>
    /\ st_pc = "idle"
    /\ st_full_text = <<>>
    /\ st_is_completed = FALSE
    /\ st_sentences = <<>>
    /\ st_k = 0
    /\ st_result_summary = <<>>
    /\ st_assigned_at = "none"

TailIdle == FetchIdle /\ StatusIdle

MoreIdle == LevenshteinIdle /\ TailIdle

LaterIdle == ClassifyIdle /\ AnalyzeIdle /\ ConcurrentIdle /\ MoreIdle

(***************************************************************************)
(* SpecSegment: one call of _identify_discussion_sessions.                 *)
(***************************************************************************)
SegInit ==
    /\ messages \in {MkMessages(t) : t \in TimeLists}
    /\ threshold \in Thresholds
    /\ pc = "sort"
    /\ sorted_messages = <<>>
    /\ idx = 1
    /\ current_session = <<>>
    /\ sessions = <<>>
    /\ MatcherIdle
    /\ ExpandIdle
    /\ LaterIdle

(* sorted_messages = sorted(messages, ...); sessions = []; current_session = [] *)
SortMessages ==
    /\ pc = "sort"
    /\ sorted_messages' = SortedByTime(messages)
    /\ idx' = 1
    /\ current_session' = <<>>
    /\ sessions' = <<>>
    /\ pc' = "loop"
    /\ UNCHANGED <<messages, threshold, matchVars, expandVars, laterVars>>

(* one iteration of the for loop *)
LoopIteration ==
    /\ pc = "loop"
    /\ idx <= Len(sorted_messages)
    /\ LET st == LoopStep([cur |-> current_session, sess |-> sessions],
                          sorted_messages[idx], threshold)
       IN  /\ current_session' = st.cur
           /\ sessions' = st.sess
    /\ idx' = idx + 1
    /\ UNCHANGED <<messages, threshold, pc, sorted_messages, matchVars, expandVars, laterVars>>

(* the loop is over: trailing cluster, sessions.sort, return sessions *)
ReturnSessions ==
    /\ pc = "loop"
    /\ idx > Len(sorted_messages)
    /\ sessions' = Finalize([cur |-> current_session, sess |-> sessions])
    /\ pc' = "done"
    /\ UNCHANGED <<messages, threshold, sorted_messages, idx, current_session, matchVars, expandVars, laterVars>>

SegNext == SortMessages \/ LoopIteration \/ ReturnSessions

SpecSegment == SegInit /\ [][SegNext]_vars

(***************************************************************************)
(* SpecSegmentCalls: a call of either segmenter of TopicAnalyzer on the    *)
(* caller's list: _identify_discussion_sessions as above, or               *)
(* _analyze_discussion_sessions.                                           *)
(***************************************************************************)
(* messages.sort(key=lambda x: x['time']): the list passed in is sorted
   itself *)
SortedInPlace(msgs) == SortedByTime(msgs)

(* _analyze_discussion_sessions: an empty list returns []; any other list is
   sorted in place (line 273) and the first iteration of the loop raises
   AttributeError at line 301, TopicAnalyzer having no
   _is_semantically_related *)
AnalyzeDiscussionSessions ==
    /\ pc = "sort"
    /\ IF messages = <<>>
       THEN /\ pc' = "done"
            /\ UNCHANGED messages
       ELSE /\ messages' = SortedInPlace(messages)
            /\ pc' = "raised"
    /\ UNCHANGED <<threshold, sorted_messages, idx, current_session, sessions,
                   matchVars, expandVars, laterVars>>

SegCallsNext == SegNext \/ AnalyzeDiscussionSessions

SpecSegmentCalls == SegInit /\ [][SegCallsNext]_vars

(***************************************************************************)
(* SpecMatcher: a caller asks the matcher about one message, then asks     *)
(* again with a variant added in front of or behind the list.  The         *)
(* variants are those of a KeywordVariantSet: lowercase, trimmed,          *)
(* non-empty, distinct.                                                    *)
(***************************************************************************)
TextAlphabet == {97, 65, 32}   \* a A space

(* 篮球, 打篮球, 坤坤, 坤 a *)
CJKTexts == {<<31726, 29699>>, <<25171, 31726, 29699>>, <<22372, 22372>>, <<22372, 32, 97>>}

MessageTexts == SeqsUpTo(TextAlphabet, MaxTextLen) \cup CJKTexts

MatcherMessages ==
    {StrMessage(t) : t \in MessageTexts} \cup {MissingContentMessage, NullContentMessage}

(* a, aa, "a a", n, 坤, 坤坤 *)
VariantPool == {<<97>>, <<97, 97>>, <<97, 32, 97>>, <<110>>, <<22372>>, <<22372, 22372>>}

MatchInit ==
    /\ mh_impl \in {"handler", "debug"}
    /\ mh_message \in MatcherMessages
    /\ mh_impl = "debug" => mh_message.kind = "str"
    /\ mh_variants \in {<<>>} \cup {<<v>> : v \in VariantPool}
    /\ mh_pc = "call"
    /\ mh_result = NoResult
    /\ mh_prev = [called |-> FALSE, value |-> FALSE]
    /\ SegmenterIdle
    /\ ExpandIdle
    /\ LaterIdle

(* self._is_semantically_related(msg, keyword_variants) *)
CallMatcher ==
    /\ mh_pc = "call"
    /\ mh_impl = "handler"
    /\ mh_result' = IsSemanticallyRelated(mh_message, mh_variants)
    /\ mh_pc' = "done"
    /\ UNCHANGED <<mh_impl, mh_message, mh_variants, mh_prev, segVars, expandVars, laterVars>>

(* DebugMessageFilter()._is_semantically_related(msg, keyword_variants) *)
CallDebugMatcher ==
    /\ mh_pc = "call"
    /\ mh_impl = "debug"
    /\ mh_result' = [value     |-> DebugIsSemanticallyRelated(mh_message.content,
                                                              mh_variants),
                     raised    |-> FALSE,
                     path      |-> "debug",
                     evaluated |-> <<>>]
    /\ mh_pc' = "done"
    /\ UNCHANGED <<mh_impl, mh_message, mh_variants, mh_prev, segVars, expandVars, laterVars>>

(* the caller asks again about the same message with one more variant *)
AskWithMoreVariants ==
    /\ mh_pc = "done"
    /\ Len(mh_variants) < MaxVariants
    /\ \E v \in VariantPool :
        /\ ~InList(mh_variants, v)
        /\ \/ mh_variants' = <<v>> \o mh_variants
           \/ mh_variants' = Append(mh_variants, v)
    /\ mh_prev' = [called |-> TRUE, value |-> mh_result.value]
    /\ mh_pc' = "call"
    /\ UNCHANGED <<mh_impl, mh_message, mh_result, segVars, expandVars, laterVars>>

MatchNext == CallMatcher \/ CallDebugMatcher \/ AskWithMoreVariants

SpecMatcher == MatchInit /\ [][MatchNext]_vars

(***************************************************************************)
(* SpecExpand: one call of _expand_keyword_variants, of MessageHandler or  *)
(* of DebugMessageFilter, on a keyword as a user types it.                 *)
(***************************************************************************)
KeywordAlphabet == {97, 65, 32, 22372}   \* a A space 坤

(* 报错, yyds, 孙笑川, 大哥 *)
NamedKeywords == {<<25253, 38169>>, <<121, 121, 100, 115>>,
                  <<23385, 31505, 24029>>, <<22823, 21733>>}

Keywords == SeqsUpTo(KeywordAlphabet, MaxKeywordLen) \cup NamedKeywords

ExpandInit ==
    /\ ex_impl \in {"handler", "debug"}
    /\ ex_raw \in Keywords
    /\ ex_keyword = ex_raw
    /\ ex_variants = <<>>
    /\ ex_gen = 1
    /\ ex_pc = "normalize"
    /\ ex_result = <<>>
    /\ SegmenterIdle
    /\ MatcherIdle
    /\ LaterIdle

(* keyword = keyword.lower().strip(); if not keyword: return [];
   variants = [keyword] *)
NormalizeAndGuard ==
    /\ ex_pc = "normalize"
    /\ ex_impl = "handler"
    /\ ex_keyword' = NormalizeKeyword(ex_raw)
    /\ IF ex_keyword' = <<>>
       THEN /\ ex_result' = <<>>
            /\ ex_pc' = "done"
            /\ UNCHANGED ex_variants
       ELSE /\ ex_variants' = <<ex_keyword'>>
            /\ ex_pc' = "generate"
            /\ UNCHANGED ex_result
    /\ UNCHANGED <<ex_impl, ex_raw, ex_gen, segVars, matchVars, laterVars>>

(* variants.extend(self._generate_..._variants(keyword)), five times *)
ExtendVariants ==
    /\ ex_pc = "generate"
    /\ ex_gen <= GeneratorCount
    /\ ex_variants' = ex_variants \o GeneratedBy(ex_gen, ex_keyword)
    /\ ex_gen' = ex_gen + 1
    /\ UNCHANGED <<ex_impl, ex_raw, ex_keyword, ex_pc, ex_result, segVars, matchVars, laterVars>>

(* the deduplication loop, the sort by score, the cut and the return *)
DedupeSortReturn ==
    /\ ex_pc = "generate"
    /\ ex_gen > GeneratorCount
    /\ ex_result' = FinalVariants(ex_keyword,
                                  SortedByScore(UniqueVariants(ex_variants, ex_keyword),
                                                ex_keyword))
    /\ ex_pc' = "done"
    /\ UNCHANGED <<ex_impl, ex_raw, ex_keyword, ex_variants, ex_gen, segVars, matchVars, laterVars>>

(* DebugMessageFilter()._expand_keyword_variants(keyword) *)
DebugExpand ==
    /\ ex_pc = "normalize"
    /\ ex_impl = "debug"
    /\ ex_keyword' = Strip(Lower(ex_raw))
    /\ ex_variants' = <<ex_keyword'>> \o debug_extensions
    /\ ex_result' \in DebugExpandOutcomes(ex_raw)
    /\ ex_pc' = "done"
    /\ UNCHANGED <<ex_impl, ex_raw, ex_gen, segVars, matchVars, laterVars>>

(* the texts of the messages the expansion is used on:
   服务器崩了, 程序报错了, 你好 *)
FilterTexts == {<<26381, 21153, 22120, 23849, 20102>>,
                <<31243, 24207, 25253, 38169, 20102>>,
                <<20320, 22909>>}

(* the caller filters a message with the list expand returned:
   fetch_group_messages (if keyword: ... self._is_semantically_related(msg,
   keyword_variants)) and DebugMessageFilter.debug_filtering *)
FilterMessage ==
    /\ ex_pc = "done"
    /\ mh_pc = "idle"
    /\ ex_raw # <<>>
    /\ mh_impl' = ex_impl
    /\ mh_variants' = ex_result
    /\ \E t \in FilterTexts : mh_message' = StrMessage(t)
    /\ mh_result' = IF ex_impl = "handler"
                    THEN IsSemanticallyRelated(mh_message', ex_result)
                    ELSE [value     |-> DebugIsSemanticallyRelated(mh_message'.content,
                                                                   ex_result),
                          raised    |-> FALSE,
                          path      |-> "debug",
                          evaluated |-> <<>>]
    /\ mh_pc' = "done"
    /\ UNCHANGED <<mh_prev, expandVars, segVars, laterVars>>

ExpandNext ==
    \/ NormalizeAndGuard
    \/ ExtendVariants
    \/ DedupeSortReturn
    \/ DebugExpand
    \/ FilterMessage

SpecExpand == ExpandInit /\ [][ExpandNext]_vars

(***************************************************************************)
(* SpecClassify: one call of _analyze_conversation_flow on the messages of *)
(* a session: the conversation type, then the key points.                  *)
(***************************************************************************)
(* 怎么办？, ？, 试试, 上次, 好, ok *)
ContentPool == {<<24590, 20040, 21150, 65311>>, <<65311>>, <<35797, 35797>>, <<19978, 27425>>, <<22909>>, <<111, 107>>}

(* a session of nine messages with seven distinct candidates, a repeat and a
   filler: a1 b2 c3 a1 d4 好 e5 f6 g7 *)
LongSession == <<<<97, 49>>, <<98, 50>>, <<99, 51>>, <<97, 49>>, <<100, 52>>, <<22909>>, <<101, 53>>, <<102, 54>>, <<103, 55>>>>

(* a session with a text of 11 characters, one of 51, a padded one and a
   question: abcdefghijk, x * 51, " ok ", 怎么办 *)
WideSession == <<<<97, 98, 99, 100, 101, 102, 103, 104, 105, 106, 107>>, [i \in 1..51 |-> 120], <<32, 111, 107, 32>>, <<24590, 20040, 21150>>>>

SessionContents == SeqsUpTo(ContentPool, MaxContents) \cup {LongSession, WideSession}

ClassifyInit ==
    /\ cl_contents \in SessionContents
    /\ cl_pc = "flow"
    /\ cl_type = <<>>
    /\ cl_key_points = <<>>
    /\ AnalyzeIdle
    /\ ConcurrentIdle
    /\ SegmenterIdle
    /\ MatcherIdle
    /\ ExpandIdle
    /\ MoreIdle

(* if not messages: return {'type': '无内容', 'key_points': [], ...} *)
ReturnNoContent ==
    /\ cl_pc = "flow"
    /\ cl_contents = <<>>
    /\ cl_type' = no_content
    /\ cl_key_points' = <<>>
    /\ cl_pc' = "done"
    /\ UNCHANGED <<cl_contents, anaVars, concVars, segVars, matchVars, expandVars, moreVars>>

(* conversation_type = self._identify_conversation_type(contents) *)
IdentifyType ==
    /\ cl_pc = "flow"
    /\ cl_contents # <<>>
    /\ cl_type' = IdentifyConversationType(cl_contents)
    /\ cl_pc' = "key_points"
    /\ UNCHANGED <<cl_contents, cl_key_points, anaVars, concVars, segVars, matchVars,
                   expandVars, moreVars>>

(* key_points = self._extract_key_points(contents); return {...} *)
ExtractKeyPoints ==
    /\ cl_pc = "key_points"
    /\ cl_key_points' \in ExtractKeyPointsOutcomes(cl_contents)
    /\ cl_pc' = "done"
    /\ UNCHANGED <<cl_contents, cl_type, anaVars, concVars, segVars, matchVars, expandVars, moreVars>>

ClassifyNext == ReturnNoContent \/ IdentifyType \/ ExtractKeyPoints

SpecClassify == ClassifyInit /\ [][ClassifyNext]_vars

(***************************************************************************)
(* SpecAnalyze: one call of TopicAnalyzer.analyze_topic_messages.          *)
(*                                                                         *)
(* The list is a crowd of senders with one message each (none, one more    *)
(* than the ranking keeps, or as many as key_discussions collects),        *)
(* followed by up to MaxExtra further messages: from a sender of the       *)
(* crowd, from a new sender, from a sender with a group card, from a       *)
(* sender without nickname, and messages that lack "sender" or "time".     *)
(* Message i carries time i.                                               *)
(***************************************************************************)
MaxExtra == 2

CrowdSize == max_contributors + 1

CrowdSizes == {0, CrowdSize, max_key_discussions}

(* user n of the crowd, nicknamed with the n-th letter *)
CrowdUser(n) ==
    [user_id |-> n, card |-> <<>>, has_nickname |-> TRUE, nickname |-> <<96 + n>>]

(* sender whose group card is the nickname of the first user of the crowd *)
CardUser ==
    [user_id |-> max_key_discussions + 2, card |-> <<97>>, has_nickname |-> TRUE,
     nickname |-> <<122>>]

(* sender without "nickname" and without "card" *)
BareUser ==
    [user_id |-> max_key_discussions + 3, card |-> <<>>, has_nickname |-> FALSE,
     nickname |-> <<>>]

absent_sender ==
    [user_id |-> 0, card |-> <<>>, has_nickname |-> FALSE, nickname |-> <<>>]

ExtraKinds == {"first", "last", "new", "card", "bare", "no_sender", "no_time"}

MessageFrom(sender, t) ==
    [has_sender |-> TRUE, sender |-> sender, has_time |-> TRUE, time |-> t]

ExtraMessage(kind, t) ==
    CASE kind = "first"     -> MessageFrom(CrowdUser(1), t)
      [] kind = "last"      -> MessageFrom(CrowdUser(CrowdSize), t)
      [] kind = "new"       -> MessageFrom(CrowdUser(max_key_discussions + 1), t)
      [] kind = "card"      -> MessageFrom(CardUser, t)
      [] kind = "bare"      -> MessageFrom(BareUser, t)
      [] kind = "no_sender" -> [has_sender |-> FALSE, sender |-> absent_sender,
                                has_time |-> TRUE, time |-> t]
      [] kind = "no_time"   -> [has_sender |-> TRUE, sender |-> CrowdUser(1),
                                has_time |-> FALSE, time |-> 0]

AnalysisInput(crowd, extra) ==
    [i \in 1..crowd |-> MessageFrom(CrowdUser(i), i)]
        \o [j \in 1..Len(extra) |-> ExtraMessage(extra[j], crowd + j)]

AnalysisInputs ==
    {AnalysisInput(crowd, extra) :
        crowd \in CrowdSizes, extra \in SeqsUpTo(ExtraKinds, MaxExtra)}

(* 报错, yyds *)
AnalyzeKeywords == {<<25253, 38169>>, <<121, 121, 100, 115>>}

(* "1", "2" *)
GroupIds == {<<49>>, <<50>>}

AnalyzeInit ==
    /\ an_messages \in AnalysisInputs
    /\ an_keyword \in AnalyzeKeywords
    /\ an_group_id \in GroupIds
    /\ an_enable_llm \in BOOLEAN
    /\ an_pc = "start"
    /\ an_result = <<>>
    /\ an_raised = "none"
    /\ ClassifyIdle
    /\ ConcurrentIdle
    /\ SegmenterIdle
    /\ MatcherIdle
    /\ ExpandIdle
    /\ MoreIdle

(* analysis_result = {...} *)
BuildResult ==
    /\ an_pc = "start"
    /\ an_result' = InitialResult(an_messages, an_keyword, an_group_id)
    /\ an_pc' = "count"
    /\ UNCHANGED <<an_messages, an_keyword, an_group_id, an_enable_llm, an_raised,
                   classVars, concVars, segVars, matchVars, expandVars, moreVars>>

(* for msg in messages: ...; nothing catches the KeyError of the body *)
CountParticipants ==
    /\ an_pc = "count"
    /\ IF \E i \in 1..Len(an_messages) : LoopBodyRaises(an_messages, i)
       THEN /\ an_raised' = "KeyError"
            /\ an_result' = <<>>
            /\ an_pc' = "raised"
       ELSE /\ an_result' = CountLoop(an_result, an_messages)
            /\ an_pc' = "rank"
            /\ UNCHANGED an_raised
    /\ UNCHANGED <<an_messages, an_keyword, an_group_id, an_enable_llm,
                   classVars, concVars, segVars, matchVars, expandVars, moreVars>>

(* participants = list(participants): the order is the set's, so the list
   is kept as the set; top_contributors = dict(sorted(...)[:15]) *)
SortContributors ==
    /\ an_pc = "rank"
    /\ an_result' = [an_result EXCEPT
                        !.top_contributors = RankContributors(an_result.top_contributors)]
    /\ an_pc' = "sessions"
    /\ UNCHANGED <<an_messages, an_keyword, an_group_id, an_enable_llm, an_raised,
                   classVars, concVars, segVars, matchVars, expandVars, moreVars>>

(* discussion_sessions = self._identify_discussion_sessions(messages, keyword) *)
IdentifyDiscussionSessions ==
    /\ an_pc = "sessions"
    /\ IF SessionsRaise(an_messages)
       THEN /\ an_raised' = "KeyError"
            /\ an_result' = <<>>
            /\ an_pc' = "raised"
       ELSE /\ an_result' = [an_result EXCEPT
                                !.discussion_sessions =
                                    SessionsOf(an_messages, interrupt_threshold_default)]
            /\ an_pc' = "summary"
            /\ UNCHANGED an_raised
    /\ UNCHANGED <<an_messages, an_keyword, an_group_id, an_enable_llm,
                   classVars, concVars, segVars, matchVars, expandVars, moreVars>>

(* if self.enable_llm: topic_summary = await self._generate_topic_summary(...);
   return analysis_result *)
SummarizeAndReturn ==
    /\ an_pc = "summary"
    /\ an_result' = [an_result EXCEPT
                        !.topic_summary =
                            TopicSummary(an_enable_llm, an_result, an_messages, an_keyword)]
    /\ an_pc' = "done"
    /\ UNCHANGED <<an_messages, an_keyword, an_group_id, an_enable_llm, an_raised,
                   classVars, concVars, segVars, matchVars, expandVars, moreVars>>

AnalyzeNext ==
    \/ BuildResult
    \/ CountParticipants
    \/ SortContributors
    \/ IdentifyDiscussionSessions
    \/ SummarizeAndReturn

SpecAnalyze == AnalyzeInit /\ [][AnalyzeNext]_vars

(***************************************************************************)
(* SpecConcurrent: two invocations of analyze_topic_messages on one        *)
(* TopicAnalyzer, for different keywords and groups, interleaved step by   *)
(* step.  An invocation holds a reference to the list it was given; the    *)
(* two may be given the same list object.  The only suspension point of    *)
(* the coroutine is the await of line 84; the steps of the invocations are *)
(* interleaved at every statement, which covers workers on threads too.    *)
(***************************************************************************)
MaxShared == 2

Invocations == {1, 2}

(* 报错 in group "1", yyds in group "2" *)
keyword_of == <<<<25253, 38169>>, <<121, 121, 100, 115>>>>

group_id_of == <<<<49>>, <<50>>>>

SharedKinds == {"first", "new", "no_sender"}

(* a list that arrives newest first: message j of n carries time n + 1 - j *)
NewestFirst(kinds) ==
    [j \in 1..Len(kinds) |-> ExtraMessage(kinds[j], Len(kinds) + 1 - j)]

SharedLists == {NewestFirst(kinds) : kinds \in SeqsUpTo(SharedKinds, MaxShared)}

(* the value of a call run alone: what it raises and what it returns *)
AnalyzeAlone(msgs, keyword, group_id, analyzer) ==
    IF (\E i \in 1..Len(msgs) : LoopBodyRaises(msgs, i)) \/ SessionsRaise(msgs)
    THEN [raised |-> "KeyError", result |-> <<>>]
    ELSE LET built == InitialResult(msgs, keyword, group_id)
             counted == CountLoop(built, msgs)
         IN  [raised |-> "none",
              result |-> [counted EXCEPT
                  !.top_contributors = RankContributors(counted.top_contributors),
                  !.discussion_sessions = SessionsOf(msgs, analyzer.interrupt_threshold),
                  !.topic_summary = TopicSummary(analyzer.enable_llm, built, msgs, keyword)]]

ConcurrentInit ==
    /\ cc_analyzer \in [enable_llm : BOOLEAN,
                        interrupt_threshold : {interrupt_threshold_default}]
    /\ cc_lists \in [Invocations -> SharedLists]
    /\ \E second \in Invocations :
           cc_calls = [p \in Invocations |->
                          [messages        |-> IF p = 1 THEN 1 ELSE second,
                           keyword         |-> keyword_of[p],
                           group_id        |-> group_id_of[p],
                           pc              |-> "start",
                           analysis_result |-> <<>>,
                           pending         |-> empty_summary,
                           raised          |-> "none"]]
    /\ ClassifyIdle
    /\ AnalyzeIdle
    /\ SegmenterIdle
    /\ MatcherIdle
    /\ ExpandIdle
    /\ MoreIdle

(* the list object invocation p was given *)
ListOf(p) == cc_lists[cc_calls[p].messages]

(* analysis_result = {...} *)
BuildResultOf(p) ==
    /\ cc_calls[p].pc = "start"
    /\ cc_calls' = [cc_calls EXCEPT
                       ![p].analysis_result =
                           InitialResult(ListOf(p), cc_calls[p].keyword, cc_calls[p].group_id),
                       ![p].pc = "count"]
    /\ UNCHANGED <<cc_analyzer, cc_lists, classVars, anaVars, segVars, matchVars,
                   expandVars, moreVars>>

(* for msg in messages: ... *)
CountParticipantsOf(p) ==
    /\ cc_calls[p].pc = "count"
    /\ cc_calls' =
           IF \E i \in 1..Len(ListOf(p)) : LoopBodyRaises(ListOf(p), i)
           THEN [cc_calls EXCEPT ![p].raised = "KeyError",
                                 ![p].analysis_result = <<>>,
                                 ![p].pc = "raised"]
           ELSE [cc_calls EXCEPT ![p].analysis_result = CountLoop(@, ListOf(p)),
                                 ![p].pc = "rank"]
    /\ UNCHANGED <<cc_analyzer, cc_lists, classVars, anaVars, segVars, matchVars,
                   expandVars, moreVars>>

(* top_contributors = dict(sorted(...)[:15]) *)
SortContributorsOf(p) ==
    /\ cc_calls[p].pc = "rank"
    /\ cc_calls' = [cc_calls EXCEPT
                       ![p].analysis_result.top_contributors = RankContributors(@),
                       ![p].pc = "sessions"]
    /\ UNCHANGED <<cc_analyzer, cc_lists, classVars, anaVars, segVars, matchVars,
                   expandVars, moreVars>>

(* discussion_sessions = self._identify_discussion_sessions(messages, keyword);
   every message that reaches this line has "time" *)
IdentifyDiscussionSessionsOf(p) ==
    /\ cc_calls[p].pc = "sessions"
    /\ cc_calls' = [cc_calls EXCEPT
                       ![p].analysis_result.discussion_sessions =
                           SessionsOf(ListOf(p), cc_analyzer.interrupt_threshold),
                       ![p].pc = "summary"]
    /\ cc_lists' = [cc_lists EXCEPT ![cc_calls[p].messages] = ArgumentAfterSort(@)]
    /\ UNCHANGED <<cc_analyzer, classVars, anaVars, segVars, matchVars, expandVars, moreVars>>

(* if self.enable_llm: the coroutine self._generate_topic_summary(messages,
   keyword) runs to its return and the invocation waits for its value;
   otherwise return analysis_result *)
CallGenerateSummaryOf(p) ==
    /\ cc_calls[p].pc = "summary"
    /\ cc_calls' =
           IF cc_analyzer.enable_llm
           THEN [cc_calls EXCEPT
                    ![p].pending = GenerateTopicSummary(ListOf(p), cc_calls[p].keyword),
                    ![p].pc = "await"]
           ELSE [cc_calls EXCEPT ![p].pc = "done"]
    /\ UNCHANGED <<cc_analyzer, cc_lists, classVars, anaVars, segVars, matchVars,
                   expandVars, moreVars>>

(* analysis_result["topic_summary"] = <the awaited value>;
   return analysis_result *)
ResumeAndReturnOf(p) ==
    /\ cc_calls[p].pc = "await"
    /\ cc_calls' = [cc_calls EXCEPT
                       ![p].analysis_result.topic_summary = cc_calls[p].pending,
                       ![p].pc = "done"]
    /\ UNCHANGED <<cc_analyzer, cc_lists, classVars, anaVars, segVars, matchVars,
                   expandVars, moreVars>>

ConcurrentNext ==
    \E p \in Invocations :
        \/ BuildResultOf(p)
        \/ CountParticipantsOf(p)
        \/ SortContributorsOf(p)
        \/ IdentifyDiscussionSessionsOf(p)
        \/ CallGenerateSummaryOf(p)
        \/ ResumeAndReturnOf(p)

SpecConcurrent == ConcurrentInit /\ [][ConcurrentNext]_vars

(***************************************************************************)
(* SpecLevenshtein: one call of MessageHandler._levenshtein_distance on    *)
(* two strings over a small alphabet.                                      *)
(***************************************************************************)
MaxLevLen == 3

(* a, 坤 *)
LevAlphabet == {97, 22372}

LevStrings == SeqsUpTo(LevAlphabet, MaxLevLen)

(* previous_row = range(len(s2) + 1) *)
InitialRow_Zeros(s2) == [k \in 1..(Len(s2) + 1) |-> 0]

InitialRow(s2) == [k \in 1..(Len(s2) + 1) |-> k - 1]

LevInit ==
    /\ lv_a \in LevStrings
    /\ lv_b \in LevStrings
    /\ lv_s1 = lv_a
    /\ lv_s2 = lv_b
    /\ lv_pc = "call"
    /\ lv_i = 0
    /\ lv_row = <<>>
    /\ lv_result = 0
    /\ SegmenterIdle
    /\ MatcherIdle
    /\ ExpandIdle
    /\ ClassifyIdle
    /\ AnalyzeIdle
    /\ ConcurrentIdle
    /\ TailIdle

(* if len(s1) < len(s2): return self._levenshtein_distance(s2, s1) *)
SwapArguments ==
    /\ lv_pc = "call"
    /\ Len(lv_s1) < Len(lv_s2)
    /\ lv_s1' = lv_s2
    /\ lv_s2' = lv_s1
    /\ UNCHANGED <<lv_a, lv_b, lv_pc, lv_i, lv_row, lv_result, segVars, matchVars,
                   expandVars, classVars, anaVars, concVars, tailVars>>

(* if len(s2) == 0: return len(s1) *)
ReturnLength ==
    /\ lv_pc = "call"
    /\ Len(lv_s1) >= Len(lv_s2)
    /\ Len(lv_s2) = 0
    /\ lv_result' = Len(lv_s1)
    /\ lv_pc' = "done"
    /\ UNCHANGED <<lv_a, lv_b, lv_s1, lv_s2, lv_i, lv_row, segVars, matchVars,
                   expandVars, classVars, anaVars, concVars, tailVars>>

(* previous_row = range(len(s2) + 1) *)
StartRows ==
    /\ lv_pc = "call"
    /\ Len(lv_s1) >= Len(lv_s2)
    /\ Len(lv_s2) # 0
    /\ lv_row' = InitialRow(lv_s2)
    /\ lv_i' = 0
    /\ lv_pc' = "rows"
    /\ UNCHANGED <<lv_a, lv_b, lv_s1, lv_s2, lv_result, segVars, matchVars,
                   expandVars, classVars, anaVars, concVars, tailVars>>

(* one iteration of `for i, c1 in enumerate(s1)`: the inner loop builds
   current_row, which becomes previous_row *)
ComputeRow ==
    /\ lv_pc = "rows"
    /\ lv_i < Len(lv_s1)
    /\ lv_row' = LevRow(lv_row, <<lv_i + 1>>, lv_s1[lv_i + 1], lv_s2)
    /\ lv_i' = lv_i + 1
    /\ UNCHANGED <<lv_a, lv_b, lv_s1, lv_s2, lv_pc, lv_result, segVars, matchVars,
                   expandVars, classVars, anaVars, concVars, tailVars>>

(* return previous_row[-1] *)
ReturnLastCell ==
    /\ lv_pc = "rows"
    /\ lv_i = Len(lv_s1)
    /\ lv_result' = lv_row[Len(lv_row)]
    /\ lv_pc' = "done"
    /\ UNCHANGED <<lv_a, lv_b, lv_s1, lv_s2, lv_i, lv_row, segVars, matchVars,
                   expandVars, classVars, anaVars, concVars, tailVars>>

LevNext ==
    \/ SwapArguments
    \/ ReturnLength
    \/ StartRows
    \/ ComputeRow
    \/ ReturnLastCell

SpecLevenshtein == LevInit /\ [][LevNext]_vars

(***************************************************************************)
(* SpecFetch: one call of MessageHandler.fetch_group_messages              *)
(* (message_handler.py).  Every call of the API gives one of: an           *)
(* exception, a result without "messages", an empty page, a page of        *)
(* messages.  A list of messages is kept as runs: a run is one message     *)
(* and the number of times it stands in a row, so that a page of 100       *)
(* messages the loop treats alike is one run of 100.                       *)
(***************************************************************************)
MaxDays == 2

(* datetime.now(): later than the epoch by more than any `days` *)
FetchNow == MaxDays + 1

(* max_rounds = 10 *)
max_rounds == 10

(* max_messages = 500 *)
max_messages == 500

(* max_failures = 3 *)
max_failures == 3

(* "count": 100 *)
page_count == 100

(* oldest_msg_time = None *)
NoTime == 0 - 1

Run(msg, n) == [msg |-> msg, copies |-> n]

(* len(list) of a list kept as runs *)
RECURSIVE LenOfRuns(_)
LenOfRuns(runs) ==
    IF runs = <<>> THEN 0 ELSE runs[1].copies + LenOfRuns(Tail(runs))

(* n times list.append(msg) *)
AppendRun(runs, msg, n) ==
    IF n = 0 THEN runs
    ELSE IF runs # <<>> /\ runs[Len(runs)].msg = msg
    THEN [runs EXCEPT ![Len(runs)].copies = @ + n]
    ELSE Append(runs, Run(msg, n))

(* one message of a page: its "time" (a number, absent, or not a number),
   whether it has a "message_id", and what the matcher reads *)
FetchMessage(time_kind, time, has_id, text) ==
    [time_kind |-> time_kind, time |-> time, has_id |-> has_id, message_id |-> 1,
     body |-> StrMessage(text)]

(* datetime.fromtimestamp(msg.get("time", 0)) raises on a non-number *)
MsgTimeRaises(msg) == msg.time_kind = "bad"

(* msg_time = datetime.fromtimestamp(msg.get("time", 0)) *)
MsgTime(msg) == IF msg.time_kind = "absent" THEN 0 ELSE msg.time

(* the window test without its upper end *)
OutsideWindow_NoUpperEnd(msg_time, start_time, end_time) == msg_time < start_time

(* if msg_time < start_time or msg_time > end_time: continue *)
OutsideWindow(msg_time, start_time, end_time) ==
    msg_time < start_time \/ msg_time > end_time

(* if keyword: if not self._is_semantically_related(msg, keyword_variants): continue *)
FilteredOut(msg, keyword, keyword_variants) ==
    /\ keyword # <<>>
    /\ ~IsSemanticallyRelated(msg.body, keyword_variants).value

(* no keyword, a *)
FetchKeywordList == << <<>>, <<97>> >>

FetchKeywords == {FetchKeywordList[k] : k \in 1..Len(FetchKeywordList)}

(* "a" and "nnn" *)
related_text == <<97>>
unrelated_text == <<110, 110, 110>>

(* the pages the API may give for a call made at `now` for `days` days *)
Pages(now, days) ==
    LET recent   == FetchMessage("int", now, TRUE, related_text)
        first    == FetchMessage("int", now - days, TRUE, related_text)
        offtopic == FetchMessage("int", now, TRUE, unrelated_text)
        future   == FetchMessage("int", now + 1, TRUE, related_text)
        future_without_id == FetchMessage("int", now + 1, FALSE, related_text)
        old      == FetchMessage("int", now - days - 1, TRUE, related_text)
        untimed  == FetchMessage("absent", 0, TRUE, related_text)
        bad_time == FetchMessage("bad", 0, TRUE, related_text)
    IN  { <<Run(recent, page_count)>>,
          <<Run(recent, page_count - 1), Run(future, 1)>>,
          <<Run(future_without_id, 1), Run(recent, page_count \div 4)>>,
          <<Run(first, 1), Run(offtopic, 1), Run(bad_time, 1), Run(old, 1)>>,
          <<Run(recent, 1), Run(untimed, 1)>>,
          <<Run(future, 1)>> }

FetchInit ==
    /\ ft_group_id \in {<<>>, <<49>>}
    /\ ft_days \in 1..MaxDays
    /\ ft_keyword \in FetchKeywords
    /\ ft_pc = "enter"
    /\ ft_start_time = 0
    /\ ft_end_time = 0
    /\ ft_variants = <<>>
    /\ ft_messages = <<>>
    /\ ft_message_seq = 0
    /\ ft_query_rounds = 0
    /\ ft_failures = 0
    /\ ft_round = <<>>
    /\ ft_i = 0
    /\ ft_valid = 0
    /\ ft_oldest = NoTime
    /\ ft_calls = 0
    /\ ft_outcome = "none"
    /\ ft_returned = <<>>
    /\ SegmenterIdle
    /\ MatcherIdle
    /\ ExpandIdle
    /\ ClassifyIdle
    /\ AnalyzeIdle
    /\ ConcurrentIdle
    /\ LevenshteinIdle
    /\ StatusIdle

(* lines 30-52: the early return, the window, the locals, the variants *)
EnterFetch ==
    /\ ft_pc = "enter"
    /\ IF ft_group_id = <<>>
       THEN /\ ft_pc' = "done"
            /\ ft_returned' = <<>>
            /\ UNCHANGED <<ft_start_time, ft_end_time, ft_variants>>
       ELSE /\ ft_end_time' = FetchNow
            /\ ft_start_time' = FetchNow - ft_days
            /\ ft_variants' = IF ft_keyword # <<>>
                              THEN ExpandKeywordVariants(ft_keyword)
                              ELSE <<>>
            /\ ft_pc' = "loop"
            /\ UNCHANGED ft_returned
    /\ UNCHANGED <<ft_group_id, ft_days, ft_keyword, ft_messages, ft_message_seq,
                   ft_query_rounds, ft_failures, ft_round, ft_i, ft_valid, ft_oldest,
                   ft_calls, ft_outcome, segVars, matchVars, expandVars, classVars,
                   anaVars, concVars, levVars, statusVars>>

(* while len(messages) < max_messages and query_rounds < max_rounds *)
LoopCondition ==
    /\ LenOfRuns(ft_messages) < max_messages
    /\ ft_query_rounds < max_rounds

(* consecutive_failures += 1; if consecutive_failures >= max_failures: break *)
CountFailure ==
    /\ ft_failures' = ft_failures + 1
    /\ ft_pc' = IF ft_failures + 1 >= max_failures THEN "return" ELSE "loop"

(* lines 56-64, 118-123: int(group_id) or call_action raises *)
CallRaises ==
    /\ ft_pc = "loop"
    /\ LoopCondition
    /\ ft_calls' = ft_calls + 1
    /\ ft_outcome' = "exception"
    /\ CountFailure
    /\ UNCHANGED <<ft_group_id, ft_days, ft_keyword, ft_start_time, ft_end_time,
                   ft_variants, ft_messages, ft_message_seq, ft_query_rounds, ft_round,
                   ft_i, ft_valid, ft_oldest, ft_returned, segVars, matchVars,
                   expandVars, classVars, anaVars, concVars, levVars, statusVars>>

(* lines 66-71: if not result or "messages" not in result *)
InvalidResult ==
    /\ ft_pc = "loop"
    /\ LoopCondition
    /\ ft_calls' = ft_calls + 1
    /\ ft_outcome' = "invalid"
    /\ CountFailure
    /\ UNCHANGED <<ft_group_id, ft_days, ft_keyword, ft_start_time, ft_end_time,
                   ft_variants, ft_messages, ft_message_seq, ft_query_rounds, ft_round,
                   ft_i, ft_valid, ft_oldest, ft_returned, segVars, matchVars,
                   expandVars, classVars, anaVars, concVars, levVars, statusVars>>

(* lines 73-77: if not round_messages: break *)
EmptyPage ==
    /\ ft_pc = "loop"
    /\ LoopCondition
    /\ ft_calls' = ft_calls + 1
    /\ ft_outcome' = "empty"
    /\ ft_pc' = "return"
    /\ UNCHANGED <<ft_group_id, ft_days, ft_keyword, ft_start_time, ft_end_time,
                   ft_variants, ft_messages, ft_message_seq, ft_query_rounds,
                   ft_failures, ft_round, ft_i, ft_valid, ft_oldest, ft_returned,
                   segVars, matchVars, expandVars, classVars, anaVars, concVars, levVars, statusVars>>

(* lines 73-84: a page with messages: the failures are forgotten and the
   locals of the round are set *)
ReceivePage ==
    /\ ft_pc = "loop"
    /\ LoopCondition
    /\ \E page \in Pages(ft_end_time, ft_days) : ft_round' = page
    /\ ft_calls' = ft_calls + 1
    /\ ft_outcome' = "page"
    /\ ft_failures' = 0
    /\ ft_valid' = 0
    /\ ft_oldest' = NoTime
    /\ ft_i' = 1
    /\ ft_pc' = "page"
    /\ UNCHANGED <<ft_group_id, ft_days, ft_keyword, ft_start_time, ft_end_time,
                   ft_variants, ft_messages, ft_message_seq, ft_query_rounds,
                   ft_returned, segVars, matchVars, expandVars, classVars, anaVars,
                   concVars, levVars, statusVars>>

(* lines 86-104: the body of `for msg in round_messages` for the messages
   of one run *)
ProcessMessages ==
    /\ ft_pc = "page"
    /\ ft_i <= Len(ft_round)
    /\ LET msg == ft_round[ft_i].msg
           n == ft_round[ft_i].copies
       IN  IF MsgTimeRaises(msg)
           THEN UNCHANGED <<ft_oldest, ft_messages, ft_valid>>
           ELSE /\ ft_oldest' = MsgTime(msg)
                /\ IF \/ OutsideWindow(MsgTime(msg), ft_start_time, ft_end_time)
                      \/ FilteredOut(msg, ft_keyword, ft_variants)
                   THEN UNCHANGED <<ft_messages, ft_valid>>
                   ELSE /\ ft_messages' = AppendRun(ft_messages, msg, n)
                        /\ ft_valid' = ft_valid + n
    /\ ft_i' = ft_i + 1
    /\ UNCHANGED <<ft_group_id, ft_days, ft_keyword, ft_pc, ft_start_time, ft_end_time,
                   ft_variants, ft_message_seq, ft_query_rounds, ft_failures, ft_round,
                   ft_calls, ft_outcome, ft_returned, segVars, matchVars, expandVars,
                   classVars, anaVars, concVars, levVars, statusVars>>

(* lines 107-123: the two breaks, then message_seq and query_rounds; a
   first message without "message_id" raises KeyError, which the except
   branch of the loop counts as a failure *)
EndRound ==
    /\ ft_pc = "page"
    /\ ft_i > Len(ft_round)
    /\ IF ft_oldest # NoTime /\ ft_oldest < ft_start_time
       THEN /\ ft_pc' = "return"
            /\ UNCHANGED <<ft_message_seq, ft_query_rounds, ft_failures>>
       ELSE IF ft_valid = 0
       THEN /\ ft_pc' = "return"
            /\ UNCHANGED <<ft_message_seq, ft_query_rounds, ft_failures>>
       ELSE IF ~ft_round[1].msg.has_id
       THEN /\ CountFailure
            /\ UNCHANGED <<ft_message_seq, ft_query_rounds>>
       ELSE /\ ft_message_seq' = ft_round[1].msg.message_id
            /\ ft_query_rounds' = ft_query_rounds + 1
            /\ ft_pc' = "loop"
            /\ UNCHANGED ft_failures
    /\ UNCHANGED <<ft_group_id, ft_days, ft_keyword, ft_start_time, ft_end_time,
                   ft_variants, ft_messages, ft_round, ft_i, ft_valid, ft_oldest,
                   ft_calls, ft_outcome, ft_returned, segVars, matchVars, expandVars,
                   classVars, anaVars, concVars, levVars, statusVars>>

(* line 126: return messages, after a break or when the loop condition fails *)
ReturnMessages ==
    /\ \/ ft_pc = "return"
       \/ ft_pc = "loop" /\ ~LoopCondition
    /\ ft_returned' = ft_messages
    /\ ft_pc' = "done"
    /\ UNCHANGED <<ft_group_id, ft_days, ft_keyword, ft_start_time, ft_end_time,
                   ft_variants, ft_messages, ft_message_seq, ft_query_rounds,
                   ft_failures, ft_round, ft_i, ft_valid, ft_oldest, ft_calls,
                   ft_outcome, segVars, matchVars, expandVars, classVars, anaVars,
                   concVars, levVars, statusVars>>

FetchNext ==
    \/ EnterFetch
    \/ CallRaises
    \/ InvalidResult
    \/ EmptyPage
    \/ ReceivePage
    \/ ProcessMessages
    \/ EndRound
    \/ ReturnMessages

SpecFetch == FetchInit /\ [][FetchNext]_vars

(***************************************************************************)
(* SpecStatus: one call of TopicAnalyzer._analyze_session_status           *)
(* (topic_analyzer.py) on a session, which has two entries or more; the    *)
(* "content" of an entry is a string.                                      *)
(***************************************************************************)
MaxSessionEntries == 2
MaxContentLen == 3

(* 决定 确定 搞定 完成 结束 定了 就这样 行了 *)
completion_keywords == <<
    <<20915, 23450>>,
    <<30830, 23450>>,
    <<25630, 23450>>,
    <<23436, 25104>>,
    <<32467, 26463>>,
    <<23450, 20102>>,
    <<23601, 36825, 26679>>,
    <<34892, 20102>> >>

(* 。 *)
full_stop == 12290

(* 讨论已完成, 讨论未完成 *)
discussion_completed == <<35752, 35770, 24050, 23436, 25104>>
discussion_not_completed == <<35752, 35770, 26410, 23436, 25104>>

(* any(keyword in text for keyword in completion_keywords) *)
HasCompletionKeyword(text) ==
    \E k \in 1..Len(completion_keywords) : Contains(text, completion_keywords[k])

(* text.split(sep) for a separator of one character *)
RECURSIVE SplitAt(_, _, _)
SplitAt(text, sep, piece) ==
    IF text = <<>> THEN <<piece>>
    ELSE IF Head(text) = sep THEN <<piece>> \o SplitAt(Tail(text), sep, <<>>)
    ELSE SplitAt(Tail(text), sep, Append(piece, Head(text)))

Split(text, sep) == SplitAt(text, sep, <<>>)

(* 完 成 。 *)
StatusAlphabet == {23436, 25104, full_stop}

(* 讨论未完成。 讨论已完成。 我们决定了 *)
NamedContents == {discussion_not_completed \o <<full_stop>>,
                  discussion_completed \o <<full_stop>>,
                  <<25105, 20204, 20915, 23450, 20102>>}

StatusContents == SeqsUpTo(StatusAlphabet, MaxContentLen) \cup NamedContents

StatusInit ==
    /\ st_session \in UNION {[1..n -> StatusContents] : n \in 2..MaxSessionEntries}
    /\ st_pc = "join"
    /\ st_full_text = <<>>
    /\ st_is_completed = FALSE
    /\ st_sentences = <<>>
    /\ st_k = 0
    /\ st_result_summary = <<>>
    /\ st_assigned_at = "none"
    /\ SegmenterIdle
    /\ MatcherIdle
    /\ ExpandIdle
    /\ ClassifyIdle
    /\ AnalyzeIdle
    /\ ConcurrentIdle
    /\ LevenshteinIdle
    /\ FetchIdle

(* messages = [msg["content"] for msg in session]; full_text = " ".join(messages) *)
JoinContents ==
    /\ st_pc = "join"
    /\ st_full_text' = Join(st_session, <<32>>)
    /\ st_pc' = "check"
    /\ UNCHANGED <<st_session, st_is_completed, st_sentences, st_k, st_result_summary,
                   st_assigned_at, segVars, matchVars, expandVars, classVars, anaVars, concVars,
                   levVars, fetchVars>>

(* is_completed = any(...); result_summary = ""; if is_completed: *)
CheckCompletion ==
    /\ st_pc = "check"
    /\ st_is_completed' = HasCompletionKeyword(st_full_text)
    /\ st_result_summary' = <<>>
    /\ st_pc' = IF HasCompletionKeyword(st_full_text) THEN "split" ELSE "else"
    /\ UNCHANGED <<st_session, st_full_text, st_sentences, st_k, st_assigned_at,
                   segVars, matchVars, expandVars, classVars, anaVars, concVars,
                   levVars, fetchVars>>

(* sentences = full_text.split("。") *)
SplitSentences ==
    /\ st_pc = "split"
    /\ st_sentences' = Split(st_full_text, full_stop)
    /\ st_k' = 1
    /\ st_pc' = "scan"
    /\ UNCHANGED <<st_session, st_full_text, st_is_completed, st_result_summary,
                   st_assigned_at, segVars, matchVars, expandVars, classVars, anaVars, concVars,
                   levVars, fetchVars>>

(* one iteration of `for sentence in sentences`, or the end of the loop *)
ScanSentence ==
    /\ st_pc = "scan"
    /\ IF st_k > Len(st_sentences)
       THEN /\ st_pc' = "after"
            /\ UNCHANGED <<st_k, st_result_summary, st_assigned_at>>
       ELSE IF HasCompletionKeyword(st_sentences[st_k])
       THEN /\ st_result_summary' = st_sentences[st_k]
            /\ st_assigned_at' = "sentence"
            /\ st_pc' = "after"
            /\ UNCHANGED st_k
       ELSE /\ st_k' = st_k + 1
            /\ UNCHANGED <<st_pc, st_result_summary, st_assigned_at>>
    /\ UNCHANGED <<st_session, st_full_text, st_is_completed, st_sentences,
                   segVars, matchVars, expandVars, classVars, anaVars, concVars,
                   levVars, fetchVars>>

(* if not result_summary: result_summary = "讨论已完成" *)
AfterLoop ==
    /\ st_pc = "after"
    /\ IF st_result_summary = <<>>
       THEN /\ st_result_summary' = discussion_completed
            /\ st_assigned_at' = "fallback"
       ELSE UNCHANGED <<st_result_summary, st_assigned_at>>
    /\ st_pc' = "done"
    /\ UNCHANGED <<st_session, st_full_text, st_is_completed, st_sentences, st_k,
                   segVars, matchVars, expandVars, classVars, anaVars, concVars,
                   levVars, fetchVars>>

(* else: result_summary = "讨论未完成" *)
NotCompleted ==
    /\ st_pc = "else"
    /\ st_result_summary' = discussion_not_completed
    /\ st_assigned_at' = "else"
    /\ st_pc' = "done"
    /\ UNCHANGED <<st_session, st_full_text, st_is_completed, st_sentences, st_k,
                   segVars, matchVars, expandVars, classVars, anaVars, concVars,
                   levVars, fetchVars>>

StatusNext ==
    \/ JoinContents
    \/ CheckCompletion
    \/ SplitSentences
    \/ ScanSentence
    \/ AfterLoop
    \/ NotCompleted

SpecStatus == StatusInit /\ [][StatusNext]_vars

(***************************************************************************)
(* Vocabulary of the segmenter's claims.  TimeOrder is the list in         *)
(* timestamp order with ties in the order supplied, defined by counting    *)
(* and not by the sort above.                                              *)
(***************************************************************************)
Rank(msgs, i) ==
    1 + Cardinality({j \in 1..Len(msgs) :
                        \/ msgs[j].time < msgs[i].time
                        \/ (msgs[j].time = msgs[i].time /\ j < i)})

TimeOrder(msgs) ==
    [k \in 1..Len(msgs) |-> msgs[CHOOSE i \in 1..Len(msgs) : Rank(msgs, i) = k]]

SessionIds(s) == {s.messages[k].id : k \in 1..Len(s.messages)}

SessionTimes(s) == [k \in 1..Len(s.messages) |-> s.messages[k].time]

InSameSession(a, b) ==
    \E i \in 1..Len(sessions) : {a.id, b.id} \subseteq SessionIds(sessions[i])

InSomeSession(a) ==
    \E i \in 1..Len(sessions) : a.id \in SessionIds(sessions[i])

Boundaries(ss) ==
    [i \in 1..Len(ss) |-> <<ss[i].start_time, ss[i].end_time, ss[i].message_count>>]

RotateLeft(s) == IF s = <<>> THEN s ELSE Append(Tail(s), Head(s))

SwapFirstTwo(s) == IF Len(s) < 2 THEN s ELSE <<s[2], s[1]>> \o SubSeq(s, 3, Len(s))

(* C1: every session the segmenter holds or returns has message_count >= 2
   and holds at least two messages; a cluster of one message is never
   emitted, closed by a gap or trailing. *)
C1_SessionsHaveTwoMessages ==
    \A i \in 1..Len(sessions) :
        /\ sessions[i].message_count >= 2
        /\ sessions[i].message_count = Len(sessions[i].messages)

(* a finished call that dropped a single message closed by a gap and a
   trailing single message, and emitted a session between them *)
C1_Witness ==
    /\ pc = "done"
    /\ Len(sessions) >= 1
    /\ Len(messages) >= 4
    /\ LET o == TimeOrder(messages)
       IN  /\ o[2].time - o[1].time > threshold
           /\ o[Len(o)].time - o[Len(o) - 1].time > threshold
           /\ ~InSomeSession(o[1])
           /\ ~InSomeSession(o[Len(o)])

(* C2: of two messages consecutive in timestamp order, those at most
   gap_threshold apart (t and t + gap_threshold included) are in the same
   session, those further apart (from t + gap_threshold + 1 on) are in no
   common session. *)
C2_GapBoundaryInclusive ==
    pc = "done" =>
        LET o == TimeOrder(messages)
        IN  \A k \in 1..(Len(o) - 1) :
                IF o[k + 1].time - o[k].time <= threshold
                THEN InSameSession(o[k], o[k + 1])
                ELSE ~InSameSession(o[k], o[k + 1])

(* a finished call with a pair exactly gap_threshold apart kept together and
   a pair gap_threshold + 1 apart split *)
C2_Witness ==
    /\ pc = "done"
    /\ threshold >= 1
    /\ LET o == TimeOrder(messages)
       IN  /\ \E k \in 1..(Len(o) - 1) :
                /\ o[k + 1].time - o[k].time = threshold
                /\ InSameSession(o[k], o[k + 1])
           /\ \E k \in 1..(Len(o) - 1) :
                /\ o[k + 1].time - o[k].time = threshold + 1
                /\ ~InSameSession(o[k], o[k + 1])

(* C3: in the returned list, a session that comes before another ends no
   later than the other starts. *)
C3_SessionOrdering ==
    pc = "done" =>
        \A i, j \in 1..Len(sessions) :
            i < j => sessions[i].end_time <= sessions[j].start_time

(* a finished call, on a list supplied out of order, that returned two sessions *)
C3_Witness ==
    /\ pc = "done"
    /\ Len(sessions) >= 2
    /\ messages # TimeOrder(messages)

(* C4: the returned sessions (time boundaries and message counts) are those
   of the loop run over the list in timestamp order, they are the same for
   the list with its first two messages swapped and for the list rotated by
   one (these two generate every permutation, and every list is an input),
   and they are sorted by start_time ascending. *)
C4_OrderIndependent ==
    pc = "done" =>
        /\ Boundaries(sessions) =
             Boundaries(Finalize(LoopFrom([cur |-> <<>>, sess |-> <<>>],
                                          TimeOrder(messages), threshold)))
        /\ Boundaries(sessions) =
             Boundaries(IdentifySessions(SwapFirstTwo(messages), threshold))
        /\ Boundaries(sessions) =
             Boundaries(IdentifySessions(RotateLeft(messages), threshold))
        /\ \A i \in 1..(Len(sessions) - 1) :
             sessions[i].start_time <= sessions[i + 1].start_time

(* a finished call on a list whose latest message was supplied first and
   whose first two messages are out of order, with a session returned *)
C4_Witness ==
    /\ pc = "done"
    /\ Len(sessions) >= 1
    /\ Len(messages) >= 3
    /\ messages[1].time > messages[2].time
    /\ messages[2].time < messages[3].time
    /\ RotateLeft(messages) # TimeOrder(messages)

(* C5: timestamps [0, 100, 200, 3000, 3100] with gap threshold 1800 give
   exactly two sessions, {0, 100, 200} and {3000, 3100}. *)
C5_Scenario ==
    (/\ pc = "done"
     /\ messages = MkMessages(ScenarioTimes)
     /\ threshold = interrupt_threshold_default)
        => /\ Len(sessions) = 2
           /\ SessionTimes(sessions[1]) = <<0, 100, 200>>
           /\ SessionTimes(sessions[2]) = <<3000, 3100>>

(* the scenario's call has returned *)
C5_Witness ==
    /\ pc = "done"
    /\ messages = MkMessages(ScenarioTimes)
    /\ threshold = interrupt_threshold_default
    /\ Len(sessions) = 2
(***************************************************************************)
(* Claims about the relevance matcher.                                     *)
(***************************************************************************)
(* the text of the message contains variant v, compared case-insensitively *)
TextContainsVariant ==
    /\ mh_message.kind = "str"
    /\ \E v \in 1..Len(mh_variants) :
           Contains(Lower(mh_message.content), Lower(mh_variants[v]))

(* C6: when the text of the message contains one of the variants as a
   substring, compared case-insensitively, the matcher (MessageHandler's and
   DebugMessageFilter's) returns true. *)
C6_SubstringImpliesRelevant ==
    (mh_pc = "done" /\ TextContainsVariant) => mh_result.value = TRUE

(* MessageHandler's matcher returned true by the substring strategy alone,
   on a text that holds the variant only after lowercasing and trimming *)
C6_Witness ==
    /\ mh_pc = "done"
    /\ mh_impl = "handler"
    /\ TextContainsVariant
    /\ \A v \in 1..Len(mh_variants) : ~Contains(mh_message.content, mh_variants[v])
    /\ Strip(mh_message.content) # mh_message.content
    /\ mh_result.value = TRUE
    /\ mh_result.evaluated = <<"direct">>

(* C7: a call that follows a call answered true, on the same text and with
   a list that holds every variant of the earlier list, is answered true. *)
C7_MatcherMonotone ==
    (mh_pc = "done" /\ mh_prev.called /\ mh_prev.value = TRUE) => mh_result.value = TRUE

(* the message has no text: the key is absent, or the text is empty or white
   space only; or the variant list is empty *)
EmptyMatcherInput ==
    \/ mh_message.kind = "missing"
    \/ mh_message.kind = "str" /\ Strip(mh_message.content) = <<>>
    \/ mh_variants = <<>>

(* C8: MessageHandler's matcher never raises and returns a boolean; on a
   message without text or an empty variant list it returns false with no
   strategy evaluated, from the guard when the text is a str or absent. *)
C8_NeverRaisesEmptyIsFalse ==
    (mh_pc = "done" /\ mh_impl = "handler") =>
        /\ mh_result.raised = FALSE
        /\ mh_result.value \in BOOLEAN
        /\ EmptyMatcherInput =>
              /\ mh_result.value = FALSE
              /\ mh_result.evaluated = <<>>
              /\ mh_message.kind # "null" => mh_result.path = "guard"

(* the matcher returned from its guard for a text of white space only and a
   variant list that is not empty *)
C8_Witness ==
    /\ mh_pc = "done"
    /\ mh_impl = "handler"
    /\ mh_message.kind = "str"
    /\ mh_message.content # <<>>
    /\ Strip(mh_message.content) = <<>>
    /\ mh_variants # <<>>
    /\ mh_result.path = "guard"
    /\ mh_result.value = FALSE

(***************************************************************************)
(* Claims about the keyword expansion.                                     *)
(***************************************************************************)
Occurrences(list, x) == Cardinality({i \in 1..Len(list) : list[i] = x})

(* C9: for a keyword that is not empty once lowercased and trimmed, the list
   expand returns (MessageHandler's and DebugMessageFilter's) starts with
   the keyword lowercased and trimmed. *)
C9_KeywordFirst ==
    (ex_pc = "done" /\ Strip(Lower(ex_raw)) # <<>>) =>
        /\ ex_result # <<>>
        /\ ex_result[1] = Strip(Lower(ex_raw))

(* C10: the list MessageHandler's expand returns holds no empty string and
   no string twice, and the keyword, lowercased and trimmed, exactly once
   when it is not empty. *)
C10_NoEmptyNoDuplicate ==
    (ex_pc = "done" /\ ex_impl = "handler") =>
        /\ \A i \in 1..Len(ex_result) : ex_result[i] # <<>>
        /\ \A i, j \in 1..Len(ex_result) : ex_result[i] = ex_result[j] => i = j
        /\ Strip(Lower(ex_raw)) # <<>> => Occurrences(ex_result, Strip(Lower(ex_raw))) = 1

(* a finished call of MessageHandler's expand on a keyword that had to be
   normalized, whose candidate list held twice a string that is in the
   result, and whose result is cut at the cap *)
C10_Witness ==
    /\ ex_pc = "done"
    /\ ex_impl = "handler"
    /\ ex_raw # ex_keyword
    /\ Len(ex_result) = max_variants + 1
    /\ \E i, j \in 1..Len(ex_variants) :
           /\ i < j
           /\ Strip(ex_variants[i]) = Strip(ex_variants[j])
           /\ Strip(ex_variants[i]) # ex_keyword
           /\ InList(ex_result, Strip(ex_variants[i]))

(* C11: the list expand returns has at most 30 elements, the keyword
   counted. *)
C11_AtMostThirtyInTotal ==
    ex_pc = "done" => Len(ex_result) <= max_variants

(* 报错, and 错误, 异常, bug, 崩溃 *)
BaoCuo == <<25253, 38169>>

BaoCuoSynonyms == {<<38169, 35823>>, <<24322, 24120>>, <<98, 117, 103>>, <<23849, 28291>>}

(* C12: expand("报错") (MessageHandler's and DebugMessageFilter's) holds 报错
   and the variants 错误, 异常, bug and 崩溃. *)
C12_BaoCuoExpansion ==
    (ex_pc = "done" /\ ex_raw = BaoCuo) =>
        \A v \in {BaoCuo} \cup BaoCuoSynonyms : InList(ex_result, v)

(* C13: the message 服务器崩了, matched against the list expand("报错")
   returned, is relevant. *)
C13_ServerCrashRelevant ==
    (/\ ex_pc = "done"
     /\ ex_raw = BaoCuo
     /\ mh_pc = "done"
     /\ mh_message = StrMessage(<<26381, 21153, 22120, 23849, 20102>>))
        => mh_result.value = TRUE

(* C20: in every session the segmenter holds or returns, the timestamps of
   the messages are non-decreasing, two consecutive messages are at most
   gap_threshold apart, start_time and end_time are the timestamps of the
   first and the last message, and duration = end_time - start_time >= 0. *)
C20_SessionShape ==
    \A i \in 1..Len(sessions) :
        LET m == sessions[i].messages
        IN  /\ \A k \in 1..(Len(m) - 1) :
                   /\ m[k].time <= m[k + 1].time
                   /\ m[k + 1].time - m[k].time <= threshold
            /\ sessions[i].start_time = m[1].time
            /\ sessions[i].end_time = m[Len(m)].time
            /\ sessions[i].duration = sessions[i].end_time - sessions[i].start_time
            /\ sessions[i].duration >= 0

(* a finished call, on a list supplied out of order, that returned a session
   of three messages or more that lasts, with two of its consecutive
   messages exactly gap_threshold apart *)
C20_Witness ==
    /\ pc = "done"
    /\ messages # TimeOrder(messages)
    /\ threshold >= 1
    /\ \E i \in 1..Len(sessions) :
           LET m == sessions[i].messages
           IN  /\ Len(m) >= 3
               /\ sessions[i].duration > 0
               /\ \E k \in 1..(Len(m) - 1) : m[k + 1].time - m[k].time = threshold

(***************************************************************************)
(* Claims about the classification of a session.                           *)
(***************************************************************************)
(* some message of the session holds one of the words *)
SessionHasAny(words) ==
    \E i \in 1..Len(cl_contents) :
        \E w \in 1..Len(words) : Contains(Lower(cl_contents[i]), words[w])

ConversationTypes ==
    {qa_discussion, advice_sharing, experience_sharing, short_response, free_discussion}

(* C14: the type of a session is one of the five; it is Q&A whenever a
   message holds an interrogative marker, whatever else the session holds
   and however short it is; advice-sharing when there is an advice marker
   and no interrogative one; experience-sharing when there is an experience
   marker and neither of the former; short-acknowledgement only for a
   session of at most 3 messages with none of the former; free discussion
   in every other case. *)
C14_ClassificationPrecedence ==
    (cl_pc \in {"key_points", "done"} /\ cl_contents # <<>>) =>
        LET q == SessionHasAny(question_markers)
            a == SessionHasAny(advice_markers)
            e == SessionHasAny(experience_markers)
        IN  /\ cl_type \in ConversationTypes
            /\ q => cl_type = qa_discussion
            /\ (~q /\ a) => cl_type = advice_sharing
            /\ (~q /\ ~a /\ e) => cl_type = experience_sharing
            /\ cl_type = short_response => (~q /\ ~a /\ ~e /\ Len(cl_contents) <= 3)
            /\ (~q /\ ~a /\ ~e /\ cl_type # short_response) => cl_type = free_discussion

(* a session of at most 3 messages that holds 怎么办 and ？, an advice marker
   and a short affirmation, classified as Q&A *)
C14_Witness ==
    /\ cl_pc = "done"
    /\ Len(cl_contents) <= 3
    /\ \E i \in 1..Len(cl_contents) : Contains(cl_contents[i], <<24590, 20040, 21150>>)
    /\ \E i \in 1..Len(cl_contents) : Contains(cl_contents[i], <<65311>>)
    /\ SessionHasAny(advice_markers)
    /\ SessionHasAny(short_markers)
    /\ cl_type = qa_discussion

(* C15: the key points returned are at most 5, pairwise distinct, and are
   the first 5 distinct candidates in the order in which the messages of the
   session first produced them. *)
C15_KeyPointsFirstSeen ==
    cl_pc = "done" =>
        /\ Len(cl_key_points) <= max_key_points
        /\ \A i, j \in 1..Len(cl_key_points) :
               cl_key_points[i] = cl_key_points[j] => i = j
        /\ cl_key_points = FirstFive(FirstSeen(KeyPointCandidates(cl_contents), <<>>))

(***************************************************************************)
(* Claims about analyze_topic_messages.                                    *)
(***************************************************************************)
(* the sender names of the argument, in the order of the list *)
InputNames == [i \in 1..Len(an_messages) |-> SenderName(an_messages[i])]

(* position of the first message of a sender *)
FirstSeenAt(name) == SetMin({i \in 1..Len(an_messages) : InputNames[i] = name})

RankedNames ==
    {an_result.top_contributors[k].name : k \in 1..Len(an_result.top_contributors)}

(* C16: the contributor ranking of a result holds at most 15 entries, one
   for each sender kept, with the number of that sender's messages; it is
   sorted by count descending, senders with equal counts stand in the order
   in which the list first names them, and every sender left out has a
   count no greater than that of every sender kept. *)
C16_ContributorRanking ==
    an_pc \in {"sessions", "summary", "done"} =>
        LET top == an_result.top_contributors
            all == {InputNames[i] : i \in 1..Len(an_messages)}
        IN  /\ Len(top) = Min2(Cardinality(all), max_contributors)
            /\ \A k \in 1..Len(top) :
                   /\ top[k].name \in all
                   /\ top[k].count = Occurrences(InputNames, top[k].name)
            /\ \A k, l \in 1..Len(top) :
                   k < l =>
                       \/ top[k].count > top[l].count
                       \/ /\ top[k].count = top[l].count
                          /\ FirstSeenAt(top[k].name) < FirstSeenAt(top[l].name)
            /\ \A name \in all \ RankedNames :
                   \A k \in 1..Len(top) : Occurrences(InputNames, name) <= top[k].count

(* a returned ranking of 15 out of more senders, led by a sender first seen
   later than the second, with a sender left out that has as many messages
   as the last one kept *)
C16_Witness ==
    /\ an_pc = "done"
    /\ Len(an_result.top_contributors) = max_contributors
    /\ FirstSeenAt(an_result.top_contributors[1].name)
           > FirstSeenAt(an_result.top_contributors[2].name)
    /\ \E i \in 1..Len(an_messages) :
           /\ InputNames[i] \notin RankedNames
           /\ Occurrences(InputNames, InputNames[i])
                  = an_result.top_contributors[max_contributors].count

(* C17: a call on an empty list does not raise, and returns a result with
   total message count 0, no participants, no contributors, no sessions and
   the "no discussion found" summary, with the summary generation enabled
   or disabled. *)
C17_EmptyListIsNormal ==
    (an_messages = <<>> /\ an_pc \in {"done", "raised"}) =>
        /\ an_pc = "done"
        /\ an_raised = "none"
        /\ an_result.total_messages = 0
        /\ an_result.participants = {}
        /\ an_result.top_contributors = <<>>
        /\ an_result.discussion_sessions = <<>>
        /\ an_result.topic_summary = Summary({}, no_discussion_summary)

(* the messages of the argument that have both "sender" and "time" *)
WellFormed == {i \in 1..Len(an_messages) : an_messages[i].has_sender /\ an_messages[i].has_time}

(* C18: no call raises because of a message without "sender" or without
   "time", and the result of a call counts exactly the senders of the
   well-formed messages of the list. *)
C18_MalformedSkipped ==
    /\ an_raised = "none"
    /\ an_pc = "done" =>
           /\ an_result.participants = {SenderId(an_messages[i]) : i \in WellFormed}
           /\ \A i \in WellFormed :
                  \E k \in 1..Len(an_result.top_contributors) :
                      an_result.top_contributors[k].name = InputNames[i]

(***************************************************************************)
(* Claims about concurrent invocations.                                    *)
(***************************************************************************)
(* what invocation p raised and returned *)
OutcomeOf(p) == [raised |-> cc_calls[p].raised, result |-> cc_calls[p].analysis_result]

(* C19: when two invocations for different keywords and groups are
   interleaved at any statement, the await of the summary included, each
   one that has finished has raised and returned exactly what a call alone
   on its list, keyword and group raises and returns; and no step of an
   invocation changes the analyzer, a list, or anything held by the other
   invocation. *)
C19_NoInterference ==
    /\ [](\A p \in DOMAIN cc_calls :
            cc_calls[p].pc \in {"done", "raised"} =>
                OutcomeOf(p) = AnalyzeAlone(ListOf(p), keyword_of[p], group_id_of[p],
                                            cc_analyzer))
    /\ [][/\ cc_analyzer' = cc_analyzer
          /\ cc_lists' = cc_lists
          /\ \E p \in DOMAIN cc_calls :
                 \A q \in DOMAIN cc_calls : q # p => cc_calls'[q] = cc_calls[q]]_concVars

(* the first invocation has returned a result with a session while the
   second, given the same list, newest message first, is suspended at the
   await *)
C19_Witness ==
    /\ cc_calls # <<>>
    /\ cc_calls[1].pc = "done"
    /\ cc_calls[2].pc = "await"
    /\ cc_calls[2].messages = cc_calls[1].messages
    /\ cc_calls[1].keyword # cc_calls[2].keyword
    /\ cc_calls[1].analysis_result.discussion_sessions # <<>>
    /\ Len(cc_calls[1].analysis_result.top_contributors) >= 2
    /\ cc_calls[2].pending # cc_calls[2].analysis_result.topic_summary

(***************************************************************************)
(* Claims about the caller's list.                                         *)
(***************************************************************************)
(* C21: no step of a segmenter call changes the list the caller passed:
   it holds the same elements in the same order before and after the
   call. *)
C21_InputUntouched == [][messages' = messages]_segVars

(***************************************************************************)
(* Claims about the cut of the expansion.                                  *)
(***************************************************************************)
(* the candidates of the call: the distinct variants generated, other than
   the keyword, in the order of generation *)
Candidates == <<>> \o UniqueVariants(ex_variants, ex_keyword)

ScoresOf(cands) ==
    <<>> \o [i \in 1..Len(cands) |-> CalculateRelevanceScore(ex_keyword, cands[i])]

(* the variants the call returned after the keyword *)
Retained == SubSeq(ex_result, 2, Len(ex_result))

SameScore(x, y) == ~FracLess(x, y) /\ ~FracLess(y, x)

(* C22: when there are more candidates than the cap, exactly the cap is
   retained; no candidate left out has a higher score than a retained one,
   nor the same score and a shorter string; and the retained ones stand by
   score descending, none before a shorter one of the same score. *)
C22_HighestScoringRetained ==
    (ex_pc = "done" /\ ex_impl = "handler" /\ ex_keyword # <<>>) =>
        LET cands == Candidates
            n == Len(cands)
            score == ScoresOf(cands)
            retained == Retained
            at == <<>> \o [k \in 1..Len(retained) |->
                              CHOOSE i \in 1..n : cands[i] = retained[k]]
            kept == {at[k] : k \in 1..Len(retained)}
        IN  n > max_variants =>
                /\ Len(retained) = max_variants
                /\ \A k \in 1..Len(retained) : InList(cands, retained[k])
                /\ \A i \in kept : \A j \in (1..n) \ kept :
                       /\ ~FracLess(score[i], score[j])
                       /\ SameScore(score[i], score[j])
                              => Len(cands[i]) <= Len(cands[j])
                /\ \A k, l \in 1..Len(retained) :
                       k < l =>
                           /\ ~FracLess(score[at[k]], score[at[l]])
                           /\ SameScore(score[at[k]], score[at[l]])
                                  => Len(retained[k]) <= Len(retained[l])

(* a call with more candidates than the cap, in which a candidate generated
   before a retained one is left out for its lower score, a candidate with
   the score of the retained ones is left out, and a shorter candidate is
   left out for its lower score *)
C22_Witness ==
    /\ ex_pc = "done"
    /\ ex_impl = "handler"
    /\ ex_keyword # <<>>
    /\ LET cands == Candidates
           n == Len(cands)
           score == ScoresOf(cands)
           retained == Retained
           kept == {i \in 1..n : InList(retained, cands[i])}
       IN  /\ n > max_variants
           /\ \E i \in kept : \E j \in (1..n) \ kept :
                  j < i /\ FracLess(score[j], score[i])
           /\ \E i \in kept : \E j \in (1..n) \ kept : SameScore(score[i], score[j])
           /\ \E i \in kept : \E j \in (1..n) \ kept : Len(cands[j]) < Len(cands[i])

(* C23: a call of the handler's expansion on a keyword of 1 character, or
   of 5 or more, generates no candidate that is the keyword followed by a
   suffix particle (了, 的, 一下, 啊, 呀, 呢). *)
C23_SuffixOnlyForShortKeywords ==
    (ex_impl = "handler" /\ ex_keyword # <<>>
        /\ (Len(ex_keyword) < 2 \/ Len(ex_keyword) > 4)) =>
        \A i \in 1..Len(ex_variants) :
            \A k \in 1..Len(char_suffixes) :
                ex_variants[i] # ex_keyword \o char_suffixes[k]

(***************************************************************************)
(* Claims about token fuzzy matching.                                      *)
(***************************************************************************)
(* the rule for one pair of tokens: edit distance at most 1, or one token
   inside the other with both of 2 characters or more *)
TokenRule(keyword_token, text_token) ==
    \/ LevenshteinDistance(keyword_token, text_token) <= 1
    \/ /\ \/ Contains(text_token, keyword_token)
          \/ Contains(keyword_token, text_token)
       /\ Len(keyword_token) >= 2
       /\ Len(text_token) >= 2

(* some token of some variant and some token of the text satisfy the rule *)
SomePairMatches(text, keyword_variants) ==
    \E v \in 1..Len(keyword_variants) :
        \E kt \in {simple_tokenize(keyword_variants[v])} :
            \E tt \in {simple_tokenize(text)} :
                \E k \in 1..Len(kt) : \E t \in 1..Len(tt) : TokenRule(kt[k], tt[t])

(* the handler's call reached the token strategy *)
HandlerAtTokens ==
    /\ mh_pc = "done"
    /\ mh_impl = "handler"
    /\ mh_result.path = "strategies"
    /\ Len(mh_result.evaluated) >= 3

(* the debug filter's call reached its token step: the text is not empty,
   no variant is in it and none has a ratio of 0.5 with it *)
DebugAtTokens ==
    /\ mh_pc = "done"
    /\ mh_impl = "debug"
    /\ LET text == Strip(Lower(mh_message.content))
       IN  /\ text # <<>>
           /\ \A v \in 1..Len(mh_variants) :
                  /\ ~Contains(text, mh_variants[v])
                  /\ ~FracAtLeast(Ratio(text, mh_variants[v]), 1, 2)

(* C24: in a call that reaches token matching, in the handler and in the
   debug filter, token matching answers true exactly when some
   (keyword-token, text-token) pair, over all variants and all tokens of the
   text, satisfies the rule; it answers false when the text or the variants
   yield no token. *)
C24_TokenFuzzyMatch ==
    /\ HandlerAtTokens =>
           ((mh_result.value /\ Len(mh_result.evaluated) = 3)
                <=> SomePairMatches(NormalizeText(mh_message.content), mh_variants))
    /\ DebugAtTokens =>
           (mh_result.value
                <=> SomePairMatches(Strip(Lower(mh_message.content)), mh_variants))

(* the handler's half of the statement, which holds *)
HandlerTokenMatchIsExact ==
    HandlerAtTokens =>
        ((mh_result.value /\ Len(mh_result.evaluated) = 3)
             <=> SomePairMatches(NormalizeText(mh_message.content), mh_variants))

(***************************************************************************)
(* Claims about the edit distance.                                         *)
(***************************************************************************)
(* the strings one insertion, deletion or substitution away from s, with
   the characters of `alphabet` and at most `longest` characters *)
OneEditAway(s, alphabet, longest) ==
    {SubSeq(s, 1, i - 1) \o SubSeq(s, i + 1, Len(s)) : i \in 1..Len(s)}
        \cup {[s EXCEPT ![i] = c] : i \in 1..Len(s), c \in alphabet}
        \cup (IF Len(s) < longest
              THEN {SubSeq(s, 1, i) \o <<c>> \o SubSeq(s, i + 1, Len(s)) :
                        i \in 0..Len(s), c \in alphabet}
              ELSE {})

(* the number of rounds of single edits after which `target` is reached
   from the strings of `reached` *)
RECURSIVE EditRounds(_, _, _, _, _)
EditRounds(reached, target, alphabet, longest, k) ==
    IF target \in reached THEN k
    ELSE EditRounds(reached \cup UNION {OneEditAway(s, alphabet, longest) : s \in reached},
                    target, alphabet, longest, k + 1)

(* the Levenshtein distance by its definition: the least number of
   insertions, deletions and substitutions of one character that turn s1
   into s2.  A shortest sequence of edits needs no character outside the two
   strings and no string longer than the longer of the two. *)
StandardDistance(s1, s2) ==
    EditRounds({s1}, s2, CharSet(s1) \cup CharSet(s2), Max2(Len(s1), Len(s2)), 0)

(* C25: the distance returned for (s1, s2) is the standard Levenshtein
   distance of the two strings; it is the distance the function gives for
   (s2, s1), it is 0 exactly when the strings are equal, and it is len(s1)
   when s2 is empty. *)
C25_StandardLevenshtein ==
    lv_pc = "done" =>
        /\ lv_result = StandardDistance(lv_a, lv_b)
        /\ lv_result = LevenshteinDistance(lv_a, lv_b)
        /\ lv_result = LevenshteinDistance(lv_b, lv_a)
        /\ lv_result = 0 <=> lv_a = lv_b
        /\ lv_b = <<>> => lv_result = Len(lv_a)

(* a call on a shorter first argument, swapped by the function, whose
   distance counts an insertion and a substitution: a坤 and 坤坤a *)
C25_Witness ==
    /\ lv_pc = "done"
    /\ lv_a = <<97, 22372>>
    /\ lv_b = <<22372, 22372, 97>>
    /\ lv_s1 = lv_b
    /\ lv_i = Len(lv_b)
    /\ lv_result = 2

(***************************************************************************)
(* Claims about the fetch loop.                                            *)
(***************************************************************************)
(* C26: the list fetch_group_messages returns never holds more than
   max_messages (500) messages, whatever the API answers. *)
C26_AtMostMaxMessages ==
    ft_pc = "done" => LenOfRuns(ft_returned) <= max_messages

(* what the loop does guarantee when no page is longer than "count": the
   cap is tested before a call only, so that one page can be added to a
   list that is below it *)
FetchedBelowCapPlusPage ==
    LenOfRuns(ft_messages) < max_messages + page_count

FetchedAboveCap ==
    ft_pc = "done" /\ LenOfRuns(ft_returned) > max_messages

(* the bound on the calls of the API that 10 rounds of at most 3 calls give *)
CallsOfTenRounds == max_rounds * max_failures

RoundsAtMostMaxRounds == ft_query_rounds <= max_rounds

(* three failures in a row end the loop *)
FailuresStopTheLoop ==
    /\ ft_failures <= max_failures
    /\ ft_failures = max_failures => ft_pc \in {"return", "done"}

(* C27: the fetch loop always ends; it makes at most 10 successful rounds,
   stops as soon as 3 calls in a row have failed, forgets the failures at
   every round that gives messages, and so calls the API at most 30 times. *)
C27_CallsBounded ==
    /\ RoundsAtMostMaxRounds
    /\ FailuresStopTheLoop
    /\ ft_calls <= CallsOfTenRounds

(* a call that gives a page with messages puts the count of failures to 0 *)
PageResetsFailures ==
    [][ft_calls' # ft_calls /\ ft_outcome' = "page" => ft_failures' = 0]_fetchVars

(* what is left of the two limits of the loop; the messages of the round
   that is being read count when the round is over *)
Remaining ==
    (max_rounds - ft_query_rounds)
    + (max_messages + page_count
       - (LenOfRuns(ft_messages) - (IF ft_pc = "page" THEN ft_valid ELSE 0)))

MaxRunsOfPage == 4

(* the steps the call can take before Remaining gets less *)
StepsLeft ==
    CASE ft_pc = "enter"  -> MaxRunsOfPage + max_failures + 4
      [] ft_pc = "loop"   -> MaxRunsOfPage + 3 + (max_failures - ft_failures)
      [] ft_pc = "page"   -> 2 + Len(ft_round) + 1 - ft_i
      [] ft_pc = "return" -> 1
      [] OTHER            -> 0

Measure == Remaining * (MaxRunsOfPage + max_failures + 5) + StepsLeft

(* the call ends: every step lowers a measure that is never negative *)
FetchEnds ==
    /\ [](Measure >= 0)
    /\ [][Measure' < Measure]_fetchVars
    /\ PageResetsFailures

(* the bound the loop does keep on its calls: at most max_failures for
   every round counted and every message collected, and for the last *)
CallsBoundedByRoundsAndMessages ==
    ft_calls <= max_failures * (ft_query_rounds + LenOfRuns(ft_messages) + 1)

(* _expand_keyword_variants of every keyword of FetchKeywordList *)
Expansions ==
    <<>> \o [k \in 1..Len(FetchKeywordList) |-> ExpandKeywordVariants(FetchKeywordList[k])]

ExpansionOf(keyword) ==
    Expansions[CHOOSE k \in 1..Len(FetchKeywordList) : FetchKeywordList[k] = keyword]

(* the test of a message as the statement words it: a timestamp inside
   [start_time, end_time] and, with a keyword, a match against the
   expansion of the keyword *)
InsideWindowAndRelevant(msg) ==
    /\ msg.time_kind = "int"
    /\ ft_start_time <= msg.time
    /\ msg.time <= ft_end_time
    /\ ft_keyword # <<>> =>
           IsSemanticallyRelated(msg.body, ExpansionOf(ft_keyword)).value

AllInsideWindowAndRelevant ==
    \A k \in 1..Len(ft_messages) : InsideWindowAndRelevant(ft_messages[k].msg)

(* the list before a step is the beginning of the list after it *)
OnlyAppended ==
    \/ ft_messages = <<>>
    \/ LET n == Len(ft_messages)
       IN  /\ Len(ft_messages') >= n
           /\ \A k \in 1..(n - 1) : ft_messages'[k] = ft_messages[k]
           /\ ft_messages'[n].msg = ft_messages[n].msg
           /\ ft_messages'[n].copies >= ft_messages[n].copies

(* the step of the loop body adds the messages of the run it looks at, or
   nothing when they raise or fail a test *)
AddsOnlyWhatPasses ==
    ft_pc = "page" /\ ft_i' = ft_i + 1 =>
        LET msg == ft_round[ft_i].msg
        IN  IF MsgTimeRaises(msg) \/ ~InsideWindowAndRelevant(msg)
            THEN ft_messages' = ft_messages
            ELSE LenOfRuns(ft_messages') = LenOfRuns(ft_messages) + ft_round[ft_i].copies

(* C28: at every point of the fetch loop every message collected so far is
   inside the window and, with a keyword, relevant; a message that fails a
   test or raises is not added; messages are only appended. *)
C28_OnlyWindowedRelevantAppended ==
    /\ []AllInsideWindowAndRelevant
    /\ [][OnlyAppended /\ AddsOnlyWhatPasses]_fetchVars

(* a keyword is given, the loop has collected messages over several
   pages and has just passed over a message that is off the topic *)
C28_Witness ==
    /\ ft_pc = "page"
    /\ ft_keyword # <<>>
    /\ Len(ft_messages) > 1
    /\ ft_i > 2
    /\ ft_round[ft_i - 1].msg.body.content = unrelated_text
    /\ ft_round[ft_i - 1].msg.time = ft_end_time

(***************************************************************************)
(* Claims about the segmentation as a partition.                           *)
(***************************************************************************)
(* how often the message with this id stands in the sessions returned *)
TimesInSessions(id) ==
    Cardinality({<<i, k>> \in (1..Len(sessions)) \X (1..Len(messages)) :
                    k <= Len(sessions[i].messages) /\ sessions[i].messages[k].id = id})

Distance(a, b) == IF a >= b THEN a - b ELSE b - a

(* no other message of the input is within the threshold of this one: in
   timestamp order its predecessor and its successor, where it has them,
   are both further away *)
IsIsolated(i) ==
    \A j \in 1..Len(messages) :
        j # i => Distance(messages[j].time, messages[i].time) > threshold

RECURSIVE SumOfCounts(_)
SumOfCounts(ss) ==
    IF ss = <<>> THEN 0 ELSE Head(ss).message_count + SumOfCounts(Tail(ss))

(* C29: of the list a call has segmented, every message is in at most one
   session, the messages in no session are exactly the isolated ones, and
   the message counts of the sessions add up to the size of the input
   less the number of isolated messages. *)
C29_PartitionWithoutLoss ==
    pc = "done" =>
        /\ \A i \in 1..Len(messages) :
               /\ TimesInSessions(messages[i].id) <= 1
               /\ TimesInSessions(messages[i].id) = 0 <=> IsIsolated(i)
        /\ SumOfCounts(sessions)
               = Len(messages) - Cardinality({i \in 1..Len(messages) : IsIsolated(i)})

(* a finished call on a list out of order that returned a session of
   three messages and left out an isolated message *)
C29_Witness ==
    /\ pc = "done"
    /\ Len(sessions) = 1
    /\ sessions[1].message_count = 3
    /\ \E i \in 1..Len(messages) : IsIsolated(i)
    /\ \E i \in 1..(Len(messages) - 1) : messages[i].time > messages[i + 1].time

(***************************************************************************)
(* Claims about the status of a session.                                   *)
(***************************************************************************)
(* the contents of the session joined by spaces *)
JoinedText == Join(st_session, <<32>>)

(* text[a..b] is a sentence of the text: it has no full stop, and stands
   between two full stops or ends of the text *)
IsSentence(text, a, b) ==
    /\ \A k \in a..b : text[k] # full_stop
    /\ a = 1 \/ text[a - 1] = full_stop
    /\ b = Len(text) \/ text[b + 1] = full_stop

(* the places of the sentences that hold a completion keyword *)
KeywordSentences(text) ==
    {ab \in (1..Len(text)) \X (1..Len(text)) :
        /\ ab[1] <= ab[2]
        /\ IsSentence(text, ab[1], ab[2])
        /\ HasCompletionKeyword(SubSeq(text, ab[1], ab[2]))}

(* the first of them *)
FirstKeywordSentence(text) ==
    LET first == CHOOSE ab \in KeywordSentences(text) :
                     \A cd \in KeywordSentences(text) : ab[1] <= cd[1]
    IN  SubSeq(text, first[1], first[2])

CompletedIffKeyword ==
    st_pc = "done" => (st_is_completed <=> HasCompletionKeyword(JoinedText))

SummaryOfCompleted ==
    st_pc = "done" /\ st_is_completed =>
        /\ st_result_summary = FirstKeywordSentence(JoinedText)
        /\ st_assigned_at # "fallback"

SummaryOfNotCompleted ==
    st_pc = "done" /\ ~st_is_completed => st_result_summary = discussion_not_completed

(* C30: is_completed is true exactly when the session text, joined by
   spaces, holds a completion keyword; result_summary is the sentence
   "discussion not completed" exactly when is_completed is false; when
   is_completed is true, result_summary is the first sentence between full
   stops that holds a completion keyword, and the fallback is never used. *)
C30_SessionStatus ==
    /\ CompletedIffKeyword
    /\ st_pc = "done" =>
           (st_result_summary = discussion_not_completed <=> ~st_is_completed)
    /\ SummaryOfCompleted

(* the statement without the direction that fails: a session that is not
   completed has the summary "discussion not completed" *)
StatusExceptConverse ==
    /\ CompletedIffKeyword
    /\ SummaryOfNotCompleted
    /\ SummaryOfCompleted

(* a session judged completed whose summary says it is not *)
CompletedYetNotCompleted ==
    /\ st_pc = "done"
    /\ st_is_completed
    /\ st_result_summary = discussion_not_completed

====
